---- MODULE Spec2Model ----
(***************************************************************************)
(* A model of crx-rpc: the request/response client (RPCClient), the        *)
(* service hosts (UnifiedRPCHost, BasePlaywrightHost, BackgroundRPCHost,   *)
(* ContentRPCHost), the error normalisation (toRpcErrorLike), the          *)
(* readiness handshake (waitReady) and the subscription hub                *)
(* (RemoteSubjectManager / RemoteSubject).                                 *)
(***************************************************************************)
EXTENDS Integers, Sequences, FiniteSets, TLC

(***************************************************************************)
(* Bounds of the model.                                                    *)
(***************************************************************************)
MaxCalls == 2
MaxClientCalls == 2

(***************************************************************************)
(* JavaScript values.  UNDEF stands for `undefined`; a string field of a   *)
(* record that is UNDEF is an absent / undefined property.                 *)
(***************************************************************************)
UNDEF == "<undefined>"

\* JS truthiness of a string-or-undefined value: '' and undefined are falsy.
Truthy(s) == s \notin {"", UNDEF}

\* String.prototype.trim on the strings of the model: " " is all blanks.
Trim(s) == IF s = " " THEN "" ELSE s

\* typeof v === 'string' for a string-or-undefined field.
IsString(s) == s # UNDEF

(***************************************************************************)
(* Thrown values.  t is the JS type of the thrown value: an Error          *)
(* instance, a plain object (record), a string, null, undefined, a number. *)
(* name/message/stack are the properties of an Error or of a record,       *)
(* errorField is the `error` property of a record, str the string itself.  *)
(***************************************************************************)
Thrown(t, name, message, stack, errorField, str) ==
    [t |-> t, name |-> name, message |-> message, stack |-> stack,
     errorField |-> errorField, str |-> str]

ErrorValue(name, message, stack) == Thrown("Error", name, message, stack, UNDEF, UNDEF)
RecordValue(name, message, errorField) == Thrown("object", name, message, UNDEF, errorField, UNDEF)
StringValue(s) == Thrown("string", UNDEF, UNDEF, UNDEF, UNDEF, s)
NullValue == Thrown("null", UNDEF, UNDEF, UNDEF, UNDEF, UNDEF)
UndefinedValue == Thrown("undefined", UNDEF, UNDEF, UNDEF, UNDEF, UNDEF)
NumberValue == Thrown("number", UNDEF, UNDEF, UNDEF, UNDEF, UNDEF)

\* The wire payload {message, name, stack} of an error Response.
ErrorPayload(message, name, stack) == [message |-> message, name |-> name, stack |-> stack]
NoPayload == ErrorPayload(UNDEF, UNDEF, UNDEF)

\* isRecord: typeof value === 'object' && value !== null (an Error is one too).
isRecord(e) == e.t \in {"Error", "object"}

\* toRpcErrorLike (unified and playwright hosts).
\* A normaliser that loses the stack of a native Error.
toRpcErrorLike_NoStack(e) ==
    IF e.t = "Error"
    THEN ErrorPayload(IF Truthy(e.message) THEN e.message ELSE "Unknown error", e.name, UNDEF)
    ELSE ErrorPayload("Unknown error", "RPCError", UNDEF)

toRpcErrorLike(e) ==
    IF e.t = "Error"
    THEN ErrorPayload(IF Truthy(e.message) THEN e.message ELSE "Unknown error", e.name, e.stack)
    ELSE IF isRecord(e) /\ IsString(e.errorField) /\ Truthy(Trim(e.errorField))
    THEN ErrorPayload(e.errorField, "ErrorPayload", UNDEF)
    ELSE IF isRecord(e) /\ IsString(e.message) /\ Truthy(Trim(e.message))
    THEN ErrorPayload(e.message, IF IsString(e.name) THEN e.name ELSE "RPCError", UNDEF)
    ELSE IF e.t = "string" /\ Truthy(Trim(e.str))
    THEN ErrorPayload(e.str, "RPCError", UNDEF)
    ELSE ErrorPayload("Unknown error", "RPCError", UNDEF)

(***************************************************************************)
(* Topology of the request/response model: one RPCClient and two hosts     *)
(* listening on the channel the client sends on (two hosts created on one  *)
(* PlaywrightBus side, or two host objects in one extension context).  A   *)
(* host is of one of the four host classes of the repository.  Requests    *)
(* are addressed to the role the hosts serve.                              *)
(***************************************************************************)
Hosts == {"h1", "h2"}
HostKinds == {"unified", "playwright", "background", "content"}

\* Service keys a Request may name, the one key hosts register, and the
\* property names every plain object inherits from Object.prototype.
RequestServices == {"IMath", "IGhost", "constructor"}
RegisteredKeys == {"IMath"}
ObjectPrototypeKeys == {"constructor"}
\* Own methods of the registered implementation, and method names a Request may name.
ImplMethods == {"add"}
RequestMethods == {"add", "keys"}
\* Own properties of the inherited built-in (the Object function) among the
\* method names of the model: none.
BuiltinMethods == {"keys"}

IdBound == IF MaxCalls > MaxClientCalls THEN MaxCalls ELSE MaxClientCalls
Ids == 1..IdBound

VARIABLES
    hostKind,   \* [Hosts -> HostKinds]: the class of each host
    services,   \* [Hosts -> SUBSET RegisteredKeys]: own keys of this.services
    limit,      \* how many calls the client makes in this run
    nextId,     \* number of calls issued (ids are fresh)
    calls,      \* [Ids -> Request]: the Request sent for each issued id
    pending,    \* RPCClient.pending: the ids with a stored {resolve, reject}
    settles,    \* [Ids -> Seq(Settlement)]: resolve/reject invocations per call
    job,        \* [Hosts -> [Ids -> Job]]: a host's handling of a Request
    respNet     \* Responses in flight to the client: {[h, resp]}

rpcVars == <<hostKind, services, limit, nextId, calls, pending, settles, job, respNet>>

VARIABLES
    clientDisposed  \* RPCClient.isDisposed()

clientVars == <<clientDisposed>>

Request(id, service, method) == [id |-> id, service |-> service, method |-> method]
NoRequest == Request(0, UNDEF, UNDEF)

\* What the implementation did when invoked: returned a value (directly or
\* through a promise) or threw / rejected with a value.
Outcome(kind, mode, value, thrown) ==
    [kind |-> kind, mode |-> mode, value |-> value, thrown |-> thrown]
NoOutcome == Outcome("none", "-", UNDEF, UndefinedValue)
Returned(mode, v) == Outcome("return", mode, v, UndefinedValue)
Threw(mode, e) == Outcome("throw", mode, UNDEF, e)

ReturnValues == {"5", UNDEF}
ThrownValues == {ErrorValue("TypeError", "boom", "at add"), NullValue, StringValue("oops")}
Modes == {"sync", "async"}
Outcomes == {Returned(m, v) : m \in Modes, v \in ReturnValues}
              \cup {Threw(m, e) : m \in Modes, e \in ThrownValues}
\* The implementation behaviours of the client-side specification.
ClientOutcomes == {Returned("sync", "5"), Threw("async", ErrorValue("TypeError", "boom", "at add"))}

\* A Response object as the host builds it: keys are the own properties
\* among result / error that the object literal has.
Response(id, service, method, keys, result, error) ==
    [id |-> id, service |-> service, method |-> method, keys |-> keys,
     result |-> result, error |-> error]
NoResponse == Response(0, UNDEF, UNDEF, {}, UNDEF, NoPayload)

\* A success Response that loses the returned value.
ResultResponse_NoResult(id, service, method, result) ==
    Response(id, service, method, {"result"}, UNDEF, NoPayload)

\* An error Response that also carries a result.
ErrorResponse_WithResult(id, service, method, payload) ==
    Response(id, service, method, {"result", "error"}, "stale", payload)

ResultResponse(id, service, method, result) ==
    Response(id, service, method, {"result"}, result, NoPayload)
ErrorResponse(id, service, method, payload) ==
    Response(id, service, method, {"error"}, UNDEF, payload)

\* The message as it crosses the channel.  The extension channels
\* (chrome.runtime / chrome.tabs sendMessage) serialise the message as JSON,
\* which drops every property whose value is undefined; the PlaywrightBus
\* hands the object over by reference.
OnWire(kind, resp) ==
    IF kind = "playwright" THEN resp
    ELSE [resp EXCEPT !.keys = {k \in @ : k = "error" \/ resp.result # UNDEF}]

\* A host's handling of one Request.
\* phase: none | inflight | awaiting | done | crashed
\* out: what the implementation did; nsent: Responses sent for the id;
\* invoked: a method was called; registered: the service key was registered
\* when the Request was handled; sent: the last Response sent, as on the wire.
Job(phase, out, nsent, invoked, registered, sent) ==
    [phase |-> phase, out |-> out, nsent |-> nsent, invoked |-> invoked,
     registered |-> registered, sent |-> sent]
NoJob == Job("none", NoOutcome, 0, FALSE, FALSE, NoResponse)

(***************************************************************************)
(* Host: service table lookup.  this.services is a plain object ({}), so   *)
(* this.services[service] finds a registered key, or else a property       *)
(* inherited from Object.prototype (a built-in function, truthy).          *)
(***************************************************************************)
Lookup(h, service) ==
    IF service \in services[h] THEN "impl"
    ELSE IF service \in ObjectPrototypeKeys THEN "builtin"
    ELSE "none"

\* method in serviceInstance: own or inherited property.
MethodIn(inst, method) ==
    IF inst = "impl" THEN method \in ImplMethods \cup ObjectPrototypeKeys
    ELSE method \in BuiltinMethods \cup ObjectPrototypeKeys

\* Reading err.message / err.name / err.stack of a thrown value that is not
\* null or undefined: a primitive has none of them.
PropOf(e, field) ==
    IF isRecord(e)
    THEN (CASE field = "message" -> e.message
            [] field = "name" -> e.name
            [] OTHER -> e.stack)
    ELSE UNDEF

\* The catch handler throws instead of responding: BackgroundRPCHost reads
\* err.message with no guard, a TypeError when err is null or undefined.
CatchThrows(kind, e) == kind = "background" /\ e.t \in {"null", "undefined"}

\* The error payload the catch handler of each host class builds.
CatchPayload(kind, e) ==
    IF kind \in {"unified", "playwright"}
    THEN LET rpcError == toRpcErrorLike(e)
         IN ErrorPayload(rpcError.message, rpcError.name, rpcError.stack)
    ELSE IF kind = "background"
    THEN ErrorPayload(PropOf(e, "message"), PropOf(e, "name"), PropOf(e, "stack"))
    ELSE \* content: err?.message ?? 'Unknown error', err?.name, err?.stack
         ErrorPayload(IF PropOf(e, "message") = UNDEF THEN "Unknown error"
                      ELSE PropOf(e, "message"),
                      PropOf(e, "name"), PropOf(e, "stack"))

\* The error Responses for a Request that cannot be dispatched.
UnknownServiceResponse(req) ==
    ErrorResponse(req.id, req.service, req.method,
                  ErrorPayload("Unknown service: " \o req.service, UNDEF, UNDEF))
UnknownMethodResponse(req) ==
    ErrorResponse(req.id, req.service, req.method,
                  ErrorPayload("Unknown method: " \o req.method, UNDEF, UNDEF))

\* sendResponse: the Response goes on the channel to the requester; the
\* host's record of the Request notes it.
SendResponse(h, id, resp, phase, out, invoked, registered) ==
    LET wire == OnWire(hostKind[h], resp) IN
    /\ respNet' = respNet \cup {[h |-> h, n |-> job[h][id].nsent + 1, resp |-> wire]}
    /\ job' = [job EXCEPT ![h][id] =
                  Job(phase, out, @.nsent + 1, invoked, registered, wire)]

\* register(identifier, implementation)
Register(h, key) ==
    /\ key \notin services[h]
    /\ services' = [services EXCEPT ![h] = @ \cup {key}]
    /\ UNCHANGED <<hostKind, limit, nextId, calls, pending, settles, job, respNet>>

\* The tail of the promise chain once the implementation's outcome is known:
\* .then(result => sendResponse({id, result, ...})) or .catch(err => ...).
Finish(h, id, out) ==
    LET req == calls[id] IN
    IF out.kind = "return"
    THEN SendResponse(h, id, ResultResponse(id, req.service, req.method, out.value),
                      "done", out, TRUE, job[h][id].registered)
    ELSE IF CatchThrows(hostKind[h], out.thrown)
    THEN /\ job' = [job EXCEPT ![h][id].phase = "crashed", ![h][id].out = out,
                               ![h][id].invoked = TRUE]
         /\ UNCHANGED respNet
    ELSE SendResponse(h, id, ErrorResponse(id, req.service, req.method,
                             CatchPayload(hostKind[h], out.thrown)),
                      "done", out, TRUE, job[h][id].registered)

\* A handler without the `return` after the unknown-method Response: it goes
\* on to invoke the method and responds again.
HostReceive_NoReturn(h, id, out) ==
    /\ job[h][id].phase = "inflight"
    /\ LET req == calls[id]
           inst == Lookup(h, req.service)
           reg == req.service \in services[h]
           first == OnWire(hostKind[h], UnknownMethodResponse(req))
           second == OnWire(hostKind[h], ResultResponse(id, req.service, req.method, UNDEF))
       IN IF inst = "none"
          THEN SendResponse(h, id, UnknownServiceResponse(req), "done", NoOutcome, FALSE, reg)
          ELSE IF ~MethodIn(inst, req.method)
          THEN /\ respNet' = respNet \cup {[h |-> h, n |-> 1, resp |-> first],
                                           [h |-> h, n |-> 2, resp |-> second]}
               /\ job' = [job EXCEPT ![h][id] = Job("done", NoOutcome, 2, TRUE, reg, second)]
          ELSE IF out.mode = "sync"
          THEN Finish(h, id, out)
          ELSE /\ job' = [job EXCEPT ![h][id] =
                              Job("awaiting", out, @.nsent, TRUE, reg, NoResponse)]
               /\ UNCHANGED respNet
    /\ UNCHANGED <<hostKind, services, limit, nextId, calls, pending, settles>>

(***************************************************************************)
(* Host: the request handler (handleRequest, handleIncomingMessage, the    *)
(* BackgroundRPCHost / ContentRPCHost handler) with the microtasks it      *)
(* queues: lookup of the service and the method, then                      *)
(* Promise.resolve().then(() => serviceInstance[method](...args)).  out is *)
(* what the implementation does if it is invoked: a synchronous outcome    *)
(* goes down the chain at once, a returned promise is awaited.             *)
(***************************************************************************)
HostReceive(h, id, out) ==
    /\ job[h][id].phase = "inflight"
    /\ LET req == calls[id]
           inst == Lookup(h, req.service)
           reg == req.service \in services[h]
       IN IF inst = "none"
          THEN SendResponse(h, id, UnknownServiceResponse(req), "done", NoOutcome, FALSE, reg)
          ELSE IF ~MethodIn(inst, req.method)
          THEN SendResponse(h, id, UnknownMethodResponse(req), "done", NoOutcome, FALSE, reg)
          ELSE IF out.mode = "sync"
          THEN Finish(h, id, out)
          ELSE /\ job' = [job EXCEPT ![h][id] =
                              Job("awaiting", out, @.nsent, TRUE, reg, NoResponse)]
               /\ UNCHANGED respNet
    /\ UNCHANGED <<hostKind, services, limit, nextId, calls, pending, settles>>

\* The promise the implementation returned settles.
HostSettle(h, id) ==
    /\ job[h][id].phase = "awaiting"
    /\ Finish(h, id, job[h][id].out)
    /\ UNCHANGED <<hostKind, services, limit, nextId, calls, pending, settles>>

(***************************************************************************)
(* Client: RPCClient.                                                      *)
(***************************************************************************)
\* A settlement of a call's promise: resolve(value) or reject(err); rid is
\* the id the settling Response carried, by the host that sent it.
Settlement(kind, value, name, message, stack, rid, by) ==
    [kind |-> kind, value |-> value, name |-> name, message |-> message,
     stack |-> stack, rid |-> rid, by |-> by]

\* new Error(m).message: an undefined argument gives the empty message.
NewErrorMessage(m) == IF m = UNDEF THEN "" ELSE m

\* The settlement the response listener makes for a Response:
\* if (error) reject(new Error(error.message) with name, stack) else resolve(result).
SettlementOf(resp, by) ==
    IF "error" \in resp.keys
    THEN Settlement("reject", UNDEF,
                    IF Truthy(resp.error.name) THEN resp.error.name ELSE "RPCError",
                    NewErrorMessage(resp.error.message), resp.error.stack, resp.id, by)
    ELSE Settlement("resolve", IF "result" \in resp.keys THEN resp.result ELSE UNDEF,
                    UNDEF, UNDEF, UNDEF, resp.id, by)

\* call(service, method, to, args): a fresh id, the pending entry, then the
\* Request goes to every listener on the channel.
Call(service, method, listeners) ==
    /\ nextId < limit
    /\ LET id == nextId + 1 IN
        /\ nextId' = id
        /\ pending' = pending \cup {id}
        /\ calls' = [calls EXCEPT ![id] = Request(id, service, method)]
        /\ job' = [h \in Hosts |-> IF h \in listeners
                                    THEN [job[h] EXCEPT ![id].phase = "inflight"]
                                    ELSE job[h]]
    /\ UNCHANGED <<hostKind, services, limit, settles, respNet>>

\* A listener that settles whatever call is pending, whatever the Response's id.
PendingEntry_AnyPending(resp) == pending

\* A listener that matches Responses with calls in the order of the calls:
\* it settles the oldest outstanding call.
PendingEntry_Oldest(resp) ==
    IF pending = {} THEN {} ELSE {CHOOSE id \in pending : \A other \in pending : id <= other}

\* The entry of the pending table a Response is matched with: pending.get(id).
PendingEntry(resp) == IF resp.id \in pending THEN {resp.id} ELSE {}

\* A client whose listener outlives dispose().
ListenerRegistered_Always == TRUE

\* The constructor hands the adapter's unsubscribe function to disposeWithMe,
\* so the listener is registered until the client is disposed.
ListenerRegistered == ~clientDisposed

\* RPCClient.dispose(): the teardown callback unregisters the listener.
ClientDispose ==
    /\ ~clientDisposed
    /\ clientDisposed' = TRUE
    /\ UNCHANGED rpcVars

\* The Response m.resp arrives on RPC_RESPONSE_EVENT_NAME. With no listener
\* it is lost; the listener returns when the pending table has no entry for
\* the id, else deletes the entry and settles it.
OnResponse(m) ==
    /\ m \in respNet
    /\ respNet' = respNet \ {m}
    /\ IF ~ListenerRegistered \/ PendingEntry(m.resp) = {}
       THEN UNCHANGED <<pending, settles>>
       ELSE \E id \in PendingEntry(m.resp) :
            /\ pending' = pending \ {id}
            /\ settles' = [settles EXCEPT ![id] = Append(@, SettlementOf(m.resp, m.h))]
    /\ UNCHANGED <<hostKind, services, limit, nextId, calls, job>>

(***************************************************************************)
(* Readiness handshake: RPCClient.waitReady and createRPCService.          *)
(* Time is in milliseconds and advances in steps of the retry delay.       *)
(***************************************************************************)
CheckTimeout == 1000
RetryDelay == 500
ReadyTimeout == 10000
MaxProxyCalls == 1

VARIABLES
    now,          \* Date.now()
    hs,           \* idle | checking | sleeping | ready | failed
    startTime,    \* waitReady's startTime
    deadline,     \* when the timer of the current check / retry delay is due
    round,        \* number of check() rounds started
    pongHandlers, \* rounds whose pong handler is still subscribed on the adapter
    pingNet,      \* pings in flight to the target side
    pongNet,      \* pongs in flight to the client
    hostUp,       \* the target host's listener is registered
    pongSeen,     \* pongs delivered to the client's adapter
    proxy,        \* createRPCService returned the proxy
    readyError,   \* the message of the error createRPCService rejected with
    proxyCalls    \* call Requests sent through the proxy

readyVars == <<now, hs, startTime, deadline, round, pongHandlers, pingNet, pongNet,
               hostUp, pongSeen, proxy, readyError, proxyCalls>>

\* check(): subscribe the pong handler, send the ping, arm the 1000 ms timer.
StartCheck ==
    /\ round' = round + 1
    /\ pongHandlers' = pongHandlers \cup {round + 1}
    /\ pingNet' = pingNet + 1
    /\ deadline' = now + CheckTimeout
    /\ hs' = "checking"

\* A handshake that checks once and never retries.
LoopContinues_Once(start) == now - start < CheckTimeout

\* The loop test of waitReady: while (Date.now() - startTime < timeout).
LoopContinues(start) == now - start < ReadyTimeout

\* A handshake that hands out the proxy when the time is up.
GiveUp_ReturnsProxy ==
    /\ hs' = "ready"
    /\ proxy' = TRUE
    /\ UNCHANGED <<round, pongHandlers, pingNet, deadline, readyError>>

\* The loop has ended without a pong: throw new Error('RPC service not ready (timeout)').
GiveUp ==
    /\ hs' = "failed"
    /\ readyError' = "RPC service not ready (timeout)"
    /\ UNCHANGED <<round, pongHandlers, pingNet, deadline, proxy>>

\* createRPCService(identifier): await this.waitReady() starts.
CreateRPCService ==
    /\ hs = "idle"
    /\ startTime' = now
    /\ IF LoopContinues(now)
       THEN StartCheck /\ UNCHANGED <<readyError, proxy>>
       ELSE GiveUp
    /\ UNCHANGED <<now, pongNet, hostUp, pongSeen, proxyCalls>>

\* The 1000 ms timer of check() fires with no pong: resolve(false); the
\* handler stays subscribed; then the 500 ms retry delay.
CheckTimerFires ==
    /\ hs = "checking"
    /\ now >= deadline
    /\ hs' = "sleeping"
    /\ deadline' = now + RetryDelay
    /\ UNCHANGED <<now, startTime, round, pongHandlers, pingNet, pongNet, hostUp,
                   pongSeen, proxy, readyError, proxyCalls>>

\* The retry delay is over: the loop tests the time and checks again or throws.
RetryTimerFires ==
    /\ hs = "sleeping"
    /\ now >= deadline
    /\ IF LoopContinues(startTime)
       THEN StartCheck /\ UNCHANGED <<readyError, proxy>>
       ELSE GiveUp
    /\ UNCHANGED <<now, startTime, pongNet, hostUp, pongSeen, proxyCalls>>

\* A pong reaches the adapter: every subscribed handler runs and disposes
\* itself; the handler of a check still waiting resolves it with true, and
\* createRPCService returns the proxy.
PongArrives ==
    /\ pongNet > 0
    /\ pongNet' = pongNet - 1
    /\ pongSeen' = pongSeen + 1
    /\ pongHandlers' = {}
    /\ IF hs = "checking" /\ round \in pongHandlers
       THEN hs' = "ready" /\ proxy' = TRUE
       ELSE UNCHANGED <<hs, proxy>>
    /\ UNCHANGED <<now, startTime, deadline, round, pingNet, hostUp, readyError, proxyCalls>>

\* The target host's constructor registers its message listener.
HostListens ==
    /\ ~hostUp
    /\ hostUp' = TRUE
    /\ UNCHANGED <<now, hs, startTime, deadline, round, pongHandlers, pingNet, pongNet,
                   pongSeen, proxy, readyError, proxyCalls>>

\* A ping reaches the target side: a listening host answers with a pong,
\* otherwise the ping is lost.
PingArrives ==
    /\ pingNet > 0
    /\ pingNet' = pingNet - 1
    /\ pongNet' = IF hostUp THEN pongNet + 1 ELSE pongNet
    /\ UNCHANGED <<now, hs, startTime, deadline, round, pongHandlers, hostUp,
                   pongSeen, proxy, readyError, proxyCalls>>

\* A method of the proxy is called: this.call(...) sends a Request.
ProxyCall ==
    /\ proxy
    /\ proxyCalls < MaxProxyCalls
    /\ proxyCalls' = proxyCalls + 1
    /\ UNCHANGED <<now, hs, startTime, deadline, round, pongHandlers, pingNet, pongNet,
                   hostUp, pongSeen, proxy, readyError>>

\* Time passes, but not past a timer that is due.
Tick ==
    /\ hs \in {"checking", "sleeping"} => now < deadline
    /\ hs \notin {"ready", "failed"}
    /\ now < ReadyTimeout + CheckTimeout + RetryDelay
    /\ now' = now + RetryDelay
    /\ UNCHANGED <<hs, startTime, deadline, round, pongHandlers, pingNet, pongNet,
                   hostUp, pongSeen, proxy, readyError, proxyCalls>>

\* Time passes once the messages in flight have been handed to their
\* listeners: a ping or a pong is delivered within one step of the clock.
\* The clock counts from the call of createRPCService.
TickAfterDelivery ==
    /\ hs # "idle"
    /\ pingNet = 0
    /\ pongNet = 0
    /\ Tick

ReadyInit ==
    /\ now = 0
    /\ hs = "idle"
    /\ startTime = 0
    /\ deadline = 0
    /\ round = 0
    /\ pongHandlers = {}
    /\ pingNet = 0
    /\ pongNet = 0
    /\ hostUp = FALSE
    /\ pongSeen = 0
    /\ proxy = FALSE
    /\ readyError = UNDEF
    /\ proxyCalls = 0

(***************************************************************************)
(* Subscription hub: RemoteSubjectManager and RemoteSubject.               *)
(***************************************************************************)
MaxHubSteps == 6

Tabs == {1, 2}
IdentifierKeys == {"Counter"}
InstanceKeys == {"main", "Counter-main"}
InitialValues == {"v0"}
NextValues == {"v1"}

\* get finalKey(): `${this.identifier.key}-${this._key}`
FinalKey(identifier, key) == identifier \o "-" \o key
\* The keys BaseObservable puts in its subscribe and unsubscribe messages.
SubscriptionKeys == {FinalKey(i, k) : i \in IdentifierKeys, k \in InstanceKeys}

VARIABLES
    subjects,             \* Map key -> RemoteSubject (its index in subjectObjs)
    subjectObjs,          \* the RemoteSubject objects ever constructed
    pendingSubscriptions, \* Map key -> Set of sender ids
    activeSenders,        \* Map key -> Set of sender ids
    tabLog,               \* messages handed to chrome.tabs.sendMessage, per tab
    closedTabs,           \* tabs that have been removed
    lastNext,             \* per RemoteSubject: the value of its latest next()
    hubSteps,             \* operations the hub has handled so far
    managerDisposed,      \* RemoteSubjectManager.isDisposed()
    lateCall              \* next() or complete() was called on a completed Subject

hubVars == <<subjects, subjectObjs, pendingSubscriptions, activeSenders, tabLog, closedTabs,
             lastNext, hubSteps, managerDisposed, lateCall>>

EmptyMap == [k \in {} |-> {}]
MapHas(m, k) == k \in DOMAIN m
MapSet(m, k, v) == [x \in (DOMAIN m) \cup {k} |-> IF x = k THEN v ELSE m[x]]
MapDelete(m, k) == [x \in (DOMAIN m) \ {k} |-> m[x]]
MapGetSet(m, k) == IF MapHas(m, k) THEN m[k] ELSE {}

RemoteSubject(identifier, key, initialValue, completed, disposed) ==
    [identifier |-> identifier, key |-> key, initialValue |-> initialValue,
     completed |-> completed, disposed |-> disposed]

\* A message handed to chrome.tabs.sendMessage; typed says whether it has
\* the `type` property.
UpdateMessage(operation, key, value, typed) ==
    [operation |-> operation, key |-> key, value |-> value, typed |-> typed]


\* chrome.tabs.sendMessage(senderId, message) for every senderId of a set.
SendToTabs(log, senders, message) ==
    [t \in Tabs |-> IF t \in senders THEN Append(log[t], message) ELSE log[t]]

\* handleSubscription(key, senderId)
HandleSubscription(key, senderId) ==
    /\ hubSteps < MaxHubSteps
    /\ ~managerDisposed
    /\ senderId \notin closedTabs
    /\ hubSteps' = hubSteps + 1
    /\ IF MapHas(subjects, key)
       THEN /\ activeSenders' = MapSet(activeSenders, key, MapGetSet(activeSenders, key) \cup {senderId})
            /\ tabLog' = SendToTabs(tabLog, {senderId},
                   UpdateMessage("next", key, subjectObjs[subjects[key]].initialValue, FALSE))
            /\ UNCHANGED pendingSubscriptions
       ELSE /\ pendingSubscriptions' =
                   MapSet(pendingSubscriptions, key, MapGetSet(pendingSubscriptions, key) \cup {senderId})
            /\ UNCHANGED <<activeSenders, tabLog>>
    /\ UNCHANGED <<subjects, subjectObjs, closedTabs, lastNext, managerDisposed, lateCall>>

\* A removal that leaves the sender in the set.
RemoveSender_Keeps(m, key, senderId) == m

\* delete senderId from the set stored under key; drop the entry when it gets empty
RemoveSender(m, key, senderId) ==
    IF ~MapHas(m, key) THEN m
    ELSE IF m[key] \ {senderId} = {} THEN MapDelete(m, key)
    ELSE MapSet(m, key, m[key] \ {senderId})

\* handleUnsubscription(key, senderId)
HandleUnsubscription(key, senderId) ==
    /\ hubSteps < MaxHubSteps
    /\ ~managerDisposed
    /\ senderId \notin closedTabs
    /\ hubSteps' = hubSteps + 1
    /\ activeSenders' = RemoveSender(activeSenders, key, senderId)
    /\ pendingSubscriptions' = RemoveSender(pendingSubscriptions, key, senderId)
    /\ UNCHANGED <<subjects, subjectObjs, tabLog, closedTabs, lastNext, managerDisposed, lateCall>>

\* A tab-removal handler that forgets the pending sets.
HandleTabRemove_ActiveOnly(tabId) ==
    /\ hubSteps < MaxHubSteps
    /\ hubSteps' = hubSteps + 1
    /\ ~managerDisposed
    /\ tabId \notin closedTabs
    /\ closedTabs' = closedTabs \cup {tabId}
    /\ activeSenders' = [k \in DOMAIN activeSenders |-> activeSenders[k] \ {tabId}]
    /\ UNCHANGED <<subjects, subjectObjs, pendingSubscriptions, tabLog, lastNext,
                   managerDisposed, lateCall>>

\* handleTabRemove(tabId)
HandleTabRemove(tabId) ==
    /\ hubSteps < MaxHubSteps
    /\ hubSteps' = hubSteps + 1
    /\ ~managerDisposed
    /\ tabId \notin closedTabs
    /\ closedTabs' = closedTabs \cup {tabId}
    /\ activeSenders' = [k \in DOMAIN activeSenders |-> activeSenders[k] \ {tabId}]
    /\ pendingSubscriptions' = [k \in DOMAIN pendingSubscriptions |-> pendingSubscriptions[k] \ {tabId}]
    /\ UNCHANGED <<subjects, subjectObjs, tabLog, lastNext, managerDisposed, lateCall>>

\* createSubject(id, key, initialValue)
CreateSubject(id, key, initialValue) ==
    /\ hubSteps < MaxHubSteps
    /\ hubSteps' = hubSteps + 1
    /\ LET subject == Len(subjectObjs) + 1
           pendingSenders == MapGetSet(pendingSubscriptions, key)
       IN  /\ subjectObjs' = Append(subjectObjs, RemoteSubject(id, key, initialValue, FALSE, FALSE))
           /\ lastNext' = Append(lastNext, UNDEF)
           /\ subjects' = MapSet(subjects, key, subject)
           /\ IF pendingSenders # {}
              THEN /\ activeSenders' = MapSet(activeSenders, key, MapGetSet(activeSenders, key) \cup pendingSenders)
                   /\ tabLog' = SendToTabs(tabLog, pendingSenders, UpdateMessage("next", key, initialValue, FALSE))
                   /\ pendingSubscriptions' = MapDelete(pendingSubscriptions, key)
              ELSE UNCHANGED <<activeSenders, tabLog, pendingSubscriptions>>
    /\ UNCHANGED <<closedTabs, managerDisposed, lateCall>>

\* RemoteSubjectManager.sendMessage(message)
SendMessage(message) == tabLog' = SendToTabs(tabLog, MapGetSet(activeSenders, message.key), message)

\* A next() that never looks at the completed flag.
SubjectNext_IgnoresCompleted(subject, value) ==
    /\ subject \in DOMAIN subjectObjs
    /\ hubSteps < MaxHubSteps
    /\ hubSteps' = hubSteps + 1
    /\ LET s == subjectObjs[subject]
       IN  /\ SendMessage(UpdateMessage("next", FinalKey(s.identifier, s.key), value, TRUE))
           /\ lastNext' = [lastNext EXCEPT ![subject] = value]
           /\ lateCall' = (lateCall \/ s.completed)
    /\ UNCHANGED <<subjects, subjectObjs, pendingSubscriptions, activeSenders, closedTabs,
                   managerDisposed>>

\* RemoteSubject.next(value)
SubjectNext(subject, value) ==
    /\ subject \in DOMAIN subjectObjs
    /\ hubSteps < MaxHubSteps
    /\ hubSteps' = hubSteps + 1
    /\ LET s == subjectObjs[subject]
       IN  IF s.completed
           THEN lateCall' = TRUE /\ UNCHANGED <<tabLog, lastNext>>
           ELSE /\ SendMessage(UpdateMessage("next", FinalKey(s.identifier, s.key), value, TRUE))
                /\ lastNext' = [lastNext EXCEPT ![subject] = value]
                /\ UNCHANGED lateCall
    /\ UNCHANGED <<subjects, subjectObjs, pendingSubscriptions, activeSenders, closedTabs,
                   managerDisposed>>

\* RemoteSubject.complete()
SubjectComplete(subject) ==
    /\ subject \in DOMAIN subjectObjs
    /\ hubSteps < MaxHubSteps
    /\ hubSteps' = hubSteps + 1
    /\ LET s == subjectObjs[subject]
       IN  IF s.completed
           THEN lateCall' = TRUE /\ UNCHANGED <<tabLog, subjectObjs>>
           ELSE /\ subjectObjs' = [subjectObjs EXCEPT ![subject].completed = TRUE]
                /\ SendMessage(UpdateMessage("complete", FinalKey(s.identifier, s.key), UNDEF, TRUE))
                /\ UNCHANGED lateCall
    /\ UNCHANGED <<subjects, pendingSubscriptions, activeSenders, closedTabs, lastNext,
                   managerDisposed>>

\* removeSubject(key)
RemoveSubject(key) ==
    /\ hubSteps < MaxHubSteps
    /\ hubSteps' = hubSteps + 1
    /\ IF MapHas(subjects, key)
       THEN /\ subjectObjs' = [subjectObjs EXCEPT ![subjects[key]].disposed = TRUE]
            /\ subjects' = MapDelete(subjects, key)
            /\ activeSenders' = MapDelete(activeSenders, key)
            /\ pendingSubscriptions' = MapDelete(pendingSubscriptions, key)
       ELSE UNCHANGED <<subjects, subjectObjs, pendingSubscriptions, activeSenders>>
    /\ UNCHANGED <<tabLog, closedTabs, lastNext, managerDisposed, lateCall>>

\* RemoteSubjectManager.dispose(): the callbacks registered by the constructor
\* remove the runtime-message listener and the tab-removal listener.
ManagerDispose ==
    /\ hubSteps < MaxHubSteps
    /\ hubSteps' = hubSteps + 1
    /\ managerDisposed' = TRUE
    /\ UNCHANGED <<subjects, subjectObjs, pendingSubscriptions, activeSenders, tabLog,
                   closedTabs, lastNext, lateCall>>

HubInit ==
    /\ subjects = EmptyMap
    /\ subjectObjs = <<>>
    /\ pendingSubscriptions = EmptyMap
    /\ activeSenders = EmptyMap
    /\ tabLog = [t \in Tabs |-> <<>>]
    /\ closedTabs = {}
    /\ lastNext = <<>>
    /\ hubSteps = 0
    /\ managerDisposed = FALSE
    /\ lateCall = FALSE

(***************************************************************************)
(* The path of one thrown value: caught by the host, serialised into the   *)
(* error Response, rebuilt by the client into the rejection.               *)
(***************************************************************************)
ErrorNames == {"", "TypeError"}
ErrorMessages == {"", "boom"}
ErrorStacks == {UNDEF, "at f"}
RecordNames == {UNDEF, "MyErr"}
RecordMessages == {UNDEF, "", " ", "bad"}
RecordErrorFields == {UNDEF, " ", "denied"}
ThrownStrings == {"", " ", "oops"}
ThrowableValues ==
    {ErrorValue(n, m, s) : n \in ErrorNames, m \in ErrorMessages, s \in ErrorStacks}
    \cup {RecordValue(n, m, e) : n \in RecordNames, m \in RecordMessages, e \in RecordErrorFields}
    \cup {StringValue(s) : s \in ThrownStrings}
    \cup {NullValue, UndefinedValue, NumberValue}

VARIABLES
    errKind,    \* the class of the host whose method throws
    errThrown,  \* the value the method throws
    errStage,   \* idle | thrown | sent | crashed | rejected
    errWire,    \* the error Response as it travels
    errSeen     \* the rejection the caller observes

errVars == <<errKind, errThrown, errStage, errWire, errSeen>>

NoSettlement == Settlement("none", UNDEF, UNDEF, UNDEF, UNDEF, 0, "")

\* The catch block of the host's request handler.
ErrCatch ==
    /\ errStage = "thrown"
    /\ IF CatchThrows(errKind, errThrown)
       THEN errStage' = "crashed" /\ UNCHANGED errWire
       ELSE /\ errStage' = "sent"
            /\ errWire' = OnWire(errKind, ErrorResponse(1, "IMath", "add", CatchPayload(errKind, errThrown)))
    /\ UNCHANGED <<errKind, errThrown, errSeen>>

\* The client's response listener rejects the pending promise.
ErrReject ==
    /\ errStage = "sent"
    /\ errStage' = "rejected"
    /\ errSeen' = SettlementOf(errWire, "h1")
    /\ UNCHANGED <<errKind, errThrown, errWire>>

ErrIdle ==
    /\ errKind = "unified"
    /\ errThrown = NullValue
    /\ errStage = "idle"
    /\ errWire = NoResponse
    /\ errSeen = NoSettlement

ErrInit ==
    /\ errKind \in HostKinds
    /\ errThrown \in ThrowableValues
    /\ errStage = "thrown"
    /\ errWire = NoResponse
    /\ errSeen = NoSettlement

(***************************************************************************)
(* Disposable: the registry of teardown callbacks.                         *)
(***************************************************************************)
MaxRegistrations == 3
MaxDisposeCalls == 2

\* The teardown callbacks of the model; "again" calls dispose() on the
\* object it is registered with.
TeardownCallbacks == {"a", "b", "again"}

VARIABLES
    isDisposedFlag,    \* _isDisposed
    disposeCallbacks,  \* _disposeCallbacks, in insertion order
    teardownRuns,      \* per callback: how many times it has run
    teardownOrder,     \* the callbacks in the order they ran
    registeredEarly,   \* callbacks registered before the first dispose()
    registrations,     \* number of disposeWithMe calls
    disposeCalls,      \* number of dispose() calls made by the owner
    isDisposedResult   \* what the latest isDisposed() returned, <<>> before the first

dispVars == <<isDisposedFlag, disposeCallbacks, teardownRuns, teardownOrder, registeredEarly,
              registrations, disposeCalls, isDisposedResult>>

SeqRange(q) == {q[i] : i \in 1..Len(q)}

\* Set.prototype.add that forgets the value is already there.
SetAdd_Array(callbacks, callback) == Append(callbacks, callback)

\* Set.prototype.add: a value already in the set keeps its place.
SetAdd(callbacks, callback) ==
    IF callback \in SeqRange(callbacks) THEN callbacks ELSE Append(callbacks, callback)

\* The part of a Disposable that dispose() reads and writes.
Registry(flag, runs, order) == [flag |-> flag, runs |-> runs, order |-> order]

RECURSIVE DisposeOn(_, _)
RECURSIVE ForEachCallback(_, _, _)

\* callback(): the teardown runs; "again" re-enters dispose().
InvokeCallback(callbacks, callback, reg) ==
    LET ran == [reg EXCEPT !.runs[callback] = @ + 1, !.order = Append(@, callback)]
    IN  IF callback = "again" THEN DisposeOn(callbacks, ran) ELSE ran

\* this._disposeCallbacks.forEach(callback => callback()), from position i
ForEachCallback(callbacks, i, reg) ==
    IF i > Len(callbacks) THEN reg
    ELSE ForEachCallback(callbacks, i + 1, InvokeCallback(callbacks, callbacks[i], reg))

\* dispose()
DisposeOn(callbacks, reg) ==
    IF reg.flag THEN reg
    ELSE ForEachCallback(callbacks, 1, [reg EXCEPT !.flag = TRUE])

\* disposeWithMe(disposeLike)
DisposeWithMe(callback) ==
    /\ registrations < MaxRegistrations
    /\ registrations' = registrations + 1
    /\ disposeCallbacks' = SetAdd(disposeCallbacks, callback)
    /\ registeredEarly' = IF isDisposedFlag THEN registeredEarly
                          ELSE registeredEarly \cup {callback}
    /\ UNCHANGED <<isDisposedFlag, teardownRuns, teardownOrder, disposeCalls, isDisposedResult>>

\* A dispose() call made by the owner of the object.
Dispose ==
    /\ disposeCalls < MaxDisposeCalls
    /\ disposeCalls' = disposeCalls + 1
    /\ LET reg == DisposeOn(disposeCallbacks, Registry(isDisposedFlag, teardownRuns, teardownOrder))
       IN  /\ isDisposedFlag' = reg.flag
           /\ teardownRuns' = reg.runs
           /\ teardownOrder' = reg.order
    /\ UNCHANGED <<disposeCallbacks, registeredEarly, registrations, isDisposedResult>>

\* isDisposed()
IsDisposed ==
    /\ isDisposedResult' = <<isDisposedFlag>>
    /\ UNCHANGED <<isDisposedFlag, disposeCallbacks, teardownRuns, teardownOrder,
                   registeredEarly, registrations, disposeCalls>>

DispInit ==
    /\ isDisposedFlag = FALSE
    /\ disposeCallbacks = <<>>
    /\ teardownRuns = [c \in TeardownCallbacks |-> 0]
    /\ teardownOrder = <<>>
    /\ registeredEarly = {}
    /\ registrations = 0
    /\ disposeCalls = 0
    /\ isDisposedResult = <<>>

(***************************************************************************)
(* Web page, content-script relay and background host (UnifiedRPCHost in   *)
(* both extension contexts), with a web client and a content-script client *)
(* in every tab.                                                           *)
(***************************************************************************)
MaxRelayCalls == 2

RelayIds == 1..MaxRelayCalls
Origins == {"web", "content"}
Targets == {"background", "content"}
BackgroundKeys == {"IMath"}
ContentKeys == {"IPage"}
RelayServices == BackgroundKeys \cup ContentKeys
RelayArgs == <<"2", "3">>

\* The window events the relay listens to, and the message types it hands
\* back to the page.
WEB_TO_BACKGROUND == {"RPC_EVENT_NAME", "SUBSCRIBABLE_OBSERVABLE", "UNSUBSCRIBE_OBSERVABLE"}
BACKGROUND_TO_WEB == {"RPC_RESPONSE_EVENT_NAME", "OBSERVABLE_EVENT", "RPC_PONG"}

VARIABLES
    contentServices, \* [Tabs -> SUBSET ContentKeys]: services of the content-script host
    relayNextId,     \* number of calls issued by the clients of the pages
    relayCalls,      \* [RelayIds -> the Request sent, with the tab it was sent in]
    clientPending,   \* [Tabs -> [Origins -> set of ids]]: the pending table of each client
    clientSettles,   \* [RelayIds -> Seq]: settlements, each with the client that made it
    runtimeNet,      \* messages sent with chrome.runtime.sendMessage, with their sender tab
    tabNet,          \* messages sent with chrome.tabs.sendMessage, with their target tab
    invocations      \* method invocations made by the hosts, with the arguments received

relayVars == <<contentServices, relayNextId, relayCalls, clientPending, clientSettles,
               runtimeNet, tabNet, invocations>>

RelayRequest(id, service, method, args, to, from) ==
    [type |-> "RPC_EVENT_NAME", id |-> id, service |-> service, method |-> method,
     args |-> args, to |-> to, from |-> from]
NoRelayRequest == [tab |-> 0, msg |-> RelayRequest(0, UNDEF, UNDEF, <<>>, UNDEF, UNDEF)]

\* RpcContext: the description of the caller.
RpcContext(tabId, sender, isFromRuntime) ==
    [tabId |-> tabId, sender |-> sender, isFromRuntime |-> isFromRuntime]

\* The arguments the host passes to the method: serviceInstance[method](...args).
InvocationArgs(args, context) == args

\* A Response addressed to a fixed role.
ResponseFrom_Static(msg) == "content"

\* from: msg.from in sendResponse.
ResponseFrom(msg) == msg.from

\* The message a host puts on the channel for a Response.
ResponseMessage(resp, from) ==
    [type |-> "RPC_RESPONSE_EVENT_NAME", from |-> from, resp |-> resp]

\* A client's response listener for a Response that has reached its adapter.
ClientSettle(pend, setl, tab, origin, resp) ==
    IF resp.id \in pend[tab][origin]
    THEN [pend |-> [pend EXCEPT ![tab][origin] = @ \ {resp.id}],
          setl |-> [setl EXCEPT ![resp.id] =
                        Append(@, [tab |-> tab, origin |-> origin,
                                   settlement |-> SettlementOf(resp, "background")])]]
    ELSE [pend |-> pend, setl |-> setl]

\* The friendly error the relay dispatches on the window for a content call
\* whose service is not registered locally.
ServiceNotInContent(req) ==
    ErrorResponse(req.id, req.service, req.method,
        ErrorPayload("Service \"" \o req.service \o
                     "\" not found in content script. Make sure the service is registered.",
                     UNDEF, UNDEF))

\* register(identifier, instance) on the content-script host of a tab.
RegisterContent(tab, key) ==
    /\ key \notin contentServices[tab]
    /\ contentServices' = [contentServices EXCEPT ![tab] = @ \cup {key}]
    /\ UNCHANGED <<relayNextId, relayCalls, clientPending, clientSettles, runtimeNet,
                   tabNet, invocations>>

\* WebRPCClient.call in the page of a tab: the Request is dispatched as a
\* window event and the relay's listener for that event runs at once:
\* to background, forward on the runtime channel; to content, answer with
\* the friendly error when the service is not registered here, else nothing.
WebCall(tab, service, to) ==
    /\ relayNextId < MaxRelayCalls
    /\ LET id == relayNextId + 1
           req == RelayRequest(id, service, "add", RelayArgs, to, "web")
           pend == [clientPending EXCEPT ![tab]["web"] = @ \cup {id}]
       IN  /\ relayNextId' = id
           /\ relayCalls' = [relayCalls EXCEPT ![id] = [tab |-> tab, msg |-> req]]
           /\ IF req.type \in WEB_TO_BACKGROUND /\ req.to = "background"
              THEN /\ runtimeNet' = runtimeNet \cup {[sender |-> tab, msg |-> req]}
                   /\ clientPending' = pend
                   /\ UNCHANGED clientSettles
              ELSE IF req.type \in WEB_TO_BACKGROUND /\ req.to = "content"
                      /\ req.service \notin contentServices[tab]
              THEN LET after == ClientSettle(pend, clientSettles, tab, "web",
                                             ServiceNotInContent(req))
                   IN  /\ clientPending' = after.pend
                       /\ clientSettles' = after.setl
                       /\ UNCHANGED runtimeNet
              ELSE /\ clientPending' = pend
                   /\ UNCHANGED <<clientSettles, runtimeNet>>
    /\ UNCHANGED <<contentServices, tabNet, invocations>>

\* ContentRPCClient.call in the content script of a tab: the Request goes
\* out on the runtime channel.
ContentCall(tab, service) ==
    /\ relayNextId < MaxRelayCalls
    /\ LET id == relayNextId + 1
           req == RelayRequest(id, service, "add", RelayArgs, "background", "content")
       IN  /\ relayNextId' = id
           /\ relayCalls' = [relayCalls EXCEPT ![id] = [tab |-> tab, msg |-> req]]
           /\ clientPending' = [clientPending EXCEPT ![tab]["content"] = @ \cup {id}]
           /\ runtimeNet' = runtimeNet \cup {[sender |-> tab, msg |-> req]}
    /\ UNCHANGED <<contentServices, clientSettles, tabNet, invocations>>

\* The background host's listener gets a Request from the runtime channel:
\* handleRequest looks the service up, invokes the method and sends the
\* Response to the sender's tab with the Request's from.
BackgroundReceive(m) ==
    /\ m \in runtimeNet
    /\ m.msg.type = "RPC_EVENT_NAME"
    /\ runtimeNet' = runtimeNet \ {m}
    /\ LET req == m.msg
           tabId == m.sender
           context == RpcContext(tabId, [tab |-> tabId], FALSE)
           known == req.service \in BackgroundKeys
           resp == IF known THEN ResultResponse(req.id, req.service, req.method, "5")
                   ELSE UnknownServiceResponse(req)
       IN  /\ invocations' =
                  IF known
                  THEN invocations \cup {[host |-> "background", id |-> req.id, args |-> req.args,
                                          context |-> context,
                                          received |-> InvocationArgs(req.args, context)]}
                  ELSE invocations
           /\ tabNet' = tabNet \cup
                  {[tab |-> tabId, msg |-> ResponseMessage(OnWire("unified", resp), ResponseFrom(req))]}
    /\ UNCHANGED <<contentServices, relayNextId, relayCalls, clientPending, clientSettles>>

\* A message from the background reaches the content script of a tab. The
\* relay hands it to the page when it is of a type for the page and is
\* addressed to "web", where the web client's listener runs; the content
\* client's listener gets every Response.
TabReceive(m) ==
    /\ m \in tabNet
    /\ m.msg.type = "RPC_RESPONSE_EVENT_NAME"
    /\ tabNet' = tabNet \ {m}
    /\ LET toPage == m.msg.type \in BACKGROUND_TO_WEB /\ m.msg.from = "web"
           web == IF toPage /\ m.msg.type = "RPC_RESPONSE_EVENT_NAME"
                  THEN ClientSettle(clientPending, clientSettles, m.tab, "web", m.msg.resp)
                  ELSE [pend |-> clientPending, setl |-> clientSettles]
           both == IF m.msg.type = "RPC_RESPONSE_EVENT_NAME"
                   THEN ClientSettle(web.pend, web.setl, m.tab, "content", m.msg.resp)
                   ELSE web
       IN  /\ clientPending' = both.pend
           /\ clientSettles' = both.setl
    /\ UNCHANGED <<contentServices, relayNextId, relayCalls, runtimeNet, invocations>>

\* What waitReady sends: { type: RPC_PING }, no other property.
PingMessage == [type |-> "RPC_PING", id |-> 0, service |-> UNDEF, method |-> UNDEF,
                args |-> <<>>, to |-> UNDEF, from |-> UNDEF]

\* The background's answer to a ping.
PongMessage == [type |-> "RPC_PONG", from |-> "background", resp |-> NoResponse]

\* The web client's ping is a window event of type RPC_PING in the page of
\* the tab: the relay's listeners for the events it forwards run, and a
\* message addressed to the background goes on the runtime channel.
WindowPing(tab) ==
    /\ pingNet > 0
    /\ pingNet' = pingNet - 1
    /\ runtimeNet' = IF PingMessage.type \in WEB_TO_BACKGROUND /\ PingMessage.to = "background"
                     THEN runtimeNet \cup {[sender |-> tab, msg |-> PingMessage]}
                     ELSE runtimeNet
    /\ UNCHANGED <<now, hs, startTime, deadline, round, pongHandlers, pongNet, hostUp,
                   pongSeen, proxy, readyError, proxyCalls>>
    /\ UNCHANGED <<contentServices, relayNextId, relayCalls, clientPending, clientSettles,
                   tabNet, invocations>>

\* The ping of a content-script client of a tab goes out on the runtime channel.
ContentPing(tab) ==
    /\ [sender |-> tab, msg |-> PingMessage] \notin runtimeNet
    /\ runtimeNet' = runtimeNet \cup {[sender |-> tab, msg |-> PingMessage]}
    /\ UNCHANGED <<contentServices, relayNextId, relayCalls, clientPending, clientSettles,
                   tabNet, invocations>>
    /\ UNCHANGED readyVars

\* sender.tab?.id of a message from a popup or side panel: no tab.
RuntimeSender == 0

\* A pong as it travels on the runtime channel.
RuntimePong(from) == [type |-> "RPC_PONG", id |-> 0, service |-> UNDEF, method |-> UNDEF,
                      args |-> <<>>, to |-> UNDEF, from |-> from]

\* A ping branch without its return: after the pong the handler goes on to
\* handleRequest with the ping, which answers for the service it names.
BackgroundPing_FallsThrough(m) ==
    /\ m \in runtimeNet
    /\ m.msg.type = "RPC_PING"
    /\ runtimeNet' = runtimeNet \ {m}
    /\ tabNet' = tabNet \cup
           {[tab |-> m.sender, msg |-> PongMessage],
            [tab |-> m.sender,
             msg |-> ResponseMessage(OnWire("unified", UnknownServiceResponse(m.msg)), m.msg.from)]}
    /\ UNCHANGED <<contentServices, relayNextId, relayCalls, clientPending, clientSettles,
                   invocations>>
    /\ UNCHANGED readyVars

\* The background host's listener gets a ping: the pong goes to the sender's
\* tab, or on the runtime channel when the sender has no tab.
BackgroundPing(m) ==
    /\ m \in runtimeNet
    /\ m.msg.type = "RPC_PING"
    /\ IF m.sender = RuntimeSender
       THEN /\ runtimeNet' = (runtimeNet \ {m}) \cup
                                {[sender |-> RuntimeSender, msg |-> RuntimePong(PongMessage.from)]}
            /\ UNCHANGED tabNet
       ELSE /\ runtimeNet' = runtimeNet \ {m}
            /\ tabNet' = tabNet \cup {[tab |-> m.sender, msg |-> PongMessage]}
    /\ UNCHANGED <<contentServices, relayNextId, relayCalls, clientPending, clientSettles,
                   invocations>>
    /\ UNCHANGED readyVars

\* A pong from the background reaches the content script of a tab: the relay
\* hands it to the page when it is addressed to "web".
TabReceivePong(m) ==
    /\ m \in tabNet
    /\ m.msg.type = "RPC_PONG"
    /\ tabNet' = tabNet \ {m}
    /\ pongNet' = IF m.msg.type \in BACKGROUND_TO_WEB /\ m.msg.from = "web"
                  THEN pongNet + 1 ELSE pongNet
    /\ UNCHANGED <<now, hs, startTime, deadline, round, pongHandlers, pingNet, hostUp,
                   pongSeen, proxy, readyError, proxyCalls>>
    /\ UNCHANGED <<contentServices, relayNextId, relayCalls, clientPending, clientSettles,
                   runtimeNet, invocations>>

\* A ping on the runtime channel while no background host listens: no
\* listener answers it.
PingUnheard(m) ==
    /\ m \in runtimeNet
    /\ m.msg.type = "RPC_PING"
    /\ runtimeNet' = runtimeNet \ {m}
    /\ UNCHANGED <<contentServices, relayNextId, relayCalls, clientPending, clientSettles,
                   tabNet, invocations>>
    /\ UNCHANGED readyVars

\* The ping of a runtime client (popup, side panel): the runtime adapter
\* sends { type: RPC_PING } with chrome.runtime.sendMessage.
RuntimePing ==
    /\ pingNet > 0
    /\ pingNet' = pingNet - 1
    /\ runtimeNet' = runtimeNet \cup {[sender |-> RuntimeSender, msg |-> PingMessage]}
    /\ UNCHANGED <<now, hs, startTime, deadline, round, pongHandlers, pongNet, hostUp,
                   pongSeen, proxy, readyError, proxyCalls>>
    /\ UNCHANGED <<contentServices, relayNextId, relayCalls, clientPending, clientSettles,
                   tabNet, invocations>>

\* The pongs the runtime client sees before the background stops pinging tabs.
MaxTabPings == 1

\* The ping of a TabRPCClient in the background, sent to a tab with
\* chrome.tabs.sendMessage.
TabPingMessage == [type |-> "RPC_PING", from |-> UNDEF, resp |-> NoResponse]

TabClientPing(tab) ==
    /\ [tab |-> tab, msg |-> TabPingMessage] \notin tabNet
    /\ tabNet' = tabNet \cup {[tab |-> tab, msg |-> TabPingMessage]}
    /\ UNCHANGED <<contentServices, relayNextId, relayCalls, clientPending, clientSettles,
                   runtimeNet, invocations>>
    /\ UNCHANGED readyVars

\* The content host of a tab gets a ping: its pong, from 'content', goes out
\* with runtimeChannel.sendMessage, to every listener of the extension.
ContentHostPing(m) ==
    /\ m \in tabNet
    /\ m.msg.type = "RPC_PING"
    /\ tabNet' = tabNet \ {m}
    /\ runtimeNet' = runtimeNet \cup {[sender |-> m.tab, msg |-> RuntimePong("content")]}
    /\ UNCHANGED <<contentServices, relayNextId, relayCalls, clientPending, clientSettles,
                   invocations>>
    /\ UNCHANGED readyVars

\* The content host's pong reaches the background: the host's listener
\* returns for a message that is neither a Request nor a ping.
BackgroundReceivePong(m) ==
    /\ m \in runtimeNet
    /\ m.msg.type = "RPC_PONG"
    /\ runtimeNet' = runtimeNet \ {m}
    /\ UNCHANGED <<contentServices, relayNextId, relayCalls, clientPending, clientSettles,
                   tabNet, invocations>>
    /\ UNCHANGED readyVars

\* A message of type RPC_PONG reaches the runtime adapter of the client:
\* every subscribed pong handler runs and disposes itself; the handler of a
\* check still waiting resolves it with true.
RuntimeReceivePong(m) ==
    /\ m \in runtimeNet
    /\ m.msg.type = "RPC_PONG"
    /\ runtimeNet' = runtimeNet \ {m}
    /\ pongSeen' = pongSeen + 1
    /\ pongHandlers' = {}
    /\ IF hs = "checking" /\ round \in pongHandlers
       THEN hs' = "ready" /\ proxy' = TRUE
       ELSE UNCHANGED <<hs, proxy>>
    /\ UNCHANGED <<now, startTime, deadline, round, pingNet, pongNet, hostUp, readyError,
                   proxyCalls>>
    /\ UNCHANGED <<contentServices, relayNextId, relayCalls, clientPending, clientSettles,
                   tabNet, invocations>>

RelayInit ==
    /\ contentServices = [t \in Tabs |-> {}]
    /\ relayNextId = 0
    /\ relayCalls = [i \in RelayIds |-> NoRelayRequest]
    /\ clientPending = [t \in Tabs |-> [o \in Origins |-> {}]]
    /\ clientSettles = [i \in RelayIds |-> <<>>]
    /\ runtimeNet = {}
    /\ tabNet = {}
    /\ invocations = {}

(***************************************************************************)
(* Observables of a tab: WebObservable in the page, behind the relay, and  *)
(* RuntimeObservable in the content script; the hub's message listener.    *)
(***************************************************************************)
VARIABLES
    observables      \* the observable objects constructed in the tabs, as Observer records

obsVars == <<observables>>

\* The keys the observables of the model subscribe to.
ObservedKeys == {"Counter-main"}

\* Runtime observables constructed per tab, the tabs whose content script
\* constructs them, and the values the Subjects of this part publish.
MaxObservers == 2
ObserverTabs == {1}
ObservedValues == {"v1", ""}

\* A BaseObservable: the side it lives on, its tab, its _finalKey, the number
\* of messages its tab had been sent when its listener was registered and
\* when the listener was removed, and whether unsubscribe() and dispose()
\* have been called on it.
Observer(side, tab, key, n, from, until, unsubscribed, disposed) ==
    [side |-> side, tab |-> tab, key |-> key, n |-> n, from |-> from, until |-> until,
     unsubscribed |-> unsubscribed, disposed |-> disposed]
NewObserver(side, tab, key) ==
    Observer(side, tab, key, Cardinality(observables) + 1, Len(tabLog[tab]), 0, FALSE, FALSE)

\* What BaseObservable sends, as the relay and the hub see it: { key } with
\* the event type; it has no `to` and no `from`.
ObservableMessage(type, key) == [type |-> type, key |-> key, to |-> UNDEF, from |-> UNDEF]

\* The relay's window listener forwards an event of a type it listens for
\* when the message is addressed to the background.
RelayForwards(msg) == msg.type \in WEB_TO_BACKGROUND /\ msg.to = "background"

\* msg.from of an update message of the hub: neither RemoteSubject nor the
\* initial pushes set it.
UpdateFrom(message) == UNDEF

\* The relay's runtime listener hands a message of the hub to the page when
\* it has a type for the page and is addressed to "web".
RelayHandsToPage(message) ==
    /\ message.typed
    /\ "OBSERVABLE_EVENT" \in BACKGROUND_TO_WEB
    /\ UpdateFrom(message) = "web"

\* new WebObservable(identifier, key, callback) in the page of a tab: the
\* listener for update events is registered and the subscribe message is
\* dispatched on the window, where the relay's listener runs.
WebObservable(tab, key) ==
    /\ \A o \in observables : ~(o.side = "web" /\ o.tab = tab /\ o.key = key)
    /\ observables' = observables \cup {NewObserver("web", tab, key)}
    /\ LET msg == ObservableMessage("SUBSCRIBABLE_OBSERVABLE", key)
       IN  runtimeNet' = IF RelayForwards(msg)
                         THEN runtimeNet \cup {[sender |-> tab, msg |-> msg]}
                         ELSE runtimeNet
    /\ UNCHANGED <<contentServices, relayNextId, relayCalls, clientPending, clientSettles,
                   tabNet, invocations>>
    /\ UNCHANGED hubVars

\* runtimeMessageAdapter.sendMessage(type, { key }) in the content script of
\* a tab: the message goes out on the runtime channel.
RuntimeObservableSend(tab, type, key) ==
    /\ [sender |-> tab, msg |-> ObservableMessage(type, key)] \notin runtimeNet
    /\ runtimeNet' = runtimeNet \cup {[sender |-> tab, msg |-> ObservableMessage(type, key)]}
    /\ UNCHANGED <<contentServices, relayNextId, relayCalls, clientPending, clientSettles,
                   tabNet, invocations>>
    /\ UNCHANGED hubVars

\* new RuntimeObservable(identifier, key, callback): the listener for update
\* messages is registered and the subscribe message is sent.
RuntimeObservable(tab, key) ==
    /\ Cardinality({o \in observables : o.side = "runtime" /\ o.tab = tab}) < MaxObservers
    /\ observables' = observables \cup {NewObserver("runtime", tab, key)}
    /\ RuntimeObservableSend(tab, "SUBSCRIBABLE_OBSERVABLE", key)

\* observable.unsubscribe(): the unsubscribe message is sent; the listener
\* stays registered.
ObservableUnsubscribe(o) ==
    /\ o \in observables
    /\ o.side = "runtime"
    /\ ~o.unsubscribed
    /\ observables' = (observables \ {o}) \cup {[o EXCEPT !.unsubscribed = TRUE]}
    /\ RuntimeObservableSend(o.tab, "UNSUBSCRIBE_OBSERVABLE", o.key)

\* observable.dispose(): Disposable.dispose runs the one registered
\* callback, which removes the listener from the adapter; nothing is sent.
ObservableDispose(o) ==
    /\ o \in observables
    /\ o.side = "runtime"
    /\ ~o.disposed
    /\ observables' = (observables \ {o}) \cup
                          {[o EXCEPT !.disposed = TRUE, !.until = Len(tabLog[o.tab])]}
    /\ UNCHANGED relayVars
    /\ UNCHANGED hubVars

\* The update messages sent to the tab that get to the handler of an
\* observable: those sent while its listener is registered that pass the
\* adapter's filter msg.type === OBSERVABLE_EVENT (runtime adapter) or that
\* the relay hands into the page (web adapter).
Reaches(o, i) ==
    /\ i > o.from
    /\ o.disposed => i <= o.until
    /\ IF o.side = "web" THEN RelayHandsToPage(tabLog[o.tab][i]) ELSE tabLog[o.tab][i].typed

\* The state of an observable's handler: its completed flag and the values
\* its callback has been invoked with.
HandlerState(completed, values) == [completed |-> completed, values |-> values]

\* The listener of BaseObservable for one update message.
Handle(o, st, msg) ==
    IF msg.key # o.key THEN st
    ELSE HandlerState(st.completed \/ msg.operation = "complete",
                      IF msg.operation = "next" /\ ~st.completed /\ Truthy(msg.value)
                      THEN Append(st.values, msg.value) ELSE st.values)

\* The handler run over the messages of the tab, from message i on.
RECURSIVE RunHandler(_, _, _)
RunHandler(o, i, st) ==
    IF i > Len(tabLog[o.tab]) THEN st
    ELSE RunHandler(o, i + 1, IF Reaches(o, i) THEN Handle(o, st, tabLog[o.tab][i]) ELSE st)

\* The hub's runtime listener (handleMessage) gets a subscribe or an
\* unsubscribe message of a tab.
HubReceive(m) ==
    /\ m \in runtimeNet
    /\ m.msg.type \in {"SUBSCRIBABLE_OBSERVABLE", "UNSUBSCRIBE_OBSERVABLE"}
    /\ runtimeNet' = runtimeNet \ {m}
    /\ IF m.msg.type = "SUBSCRIBABLE_OBSERVABLE"
       THEN HandleSubscription(m.msg.key, m.sender)
       ELSE HandleUnsubscription(m.msg.key, m.sender)
    /\ UNCHANGED <<contentServices, relayNextId, relayCalls, clientPending, clientSettles,
                   tabNet, invocations>>
    /\ UNCHANGED obsVars

ObsInit == observables = {}

(***************************************************************************)
(* Playwright bridge: one PlaywrightBus shared by hosts and clients.       *)
(***************************************************************************)
MaxBusCalls == 2

BusIds == 1..MaxBusCalls
BridgeClients == {"c1", "c2"}
BusServices == {"IMath", "IGhost"}
BusRegistered == {"IMath"}

\* A target id is a number or a string.
TargetId(t, v) == [t |-> t, v |-> v]
TargetIds == {TargetId("number", "1"), TargetId("string", "1"), TargetId("string", "B")}

\* targetKey(targetId): String(targetId)
TargetKey(targetId) == targetId.v

\* The hosts that can be created on the bridge, with the side and the target
\* each is bound to.
HostBinding(side, targetId) == [side |-> side, targetId |-> targetId]
BridgeHosts ==
    [bg1 |-> HostBinding("background", TargetId("none", UNDEF)),
     p1 |-> HostBinding("content", TargetId("number", "1")),
     s1 |-> HostBinding("content", TargetId("string", "1")),
     sB |-> HostBinding("content", TargetId("string", "B"))]
BridgeHostNames == DOMAIN BridgeHosts

\* The route of a low-level client and the clientId of its SenderContext.
Route(to, targetId) == [to |-> to, targetId |-> targetId]
BackgroundRoute == Route("background", TargetId("none", UNDEF))
Routes == {BackgroundRoute} \cup {Route("content", t) : t \in TargetIds}
ClientIdOf(client, route) ==
    IF route.to = "background" THEN client \o ":background"
    ELSE client \o ":" \o TargetKey(route.targetId)

VARIABLES
    backgroundListeners, \* PlaywrightBus.backgroundListeners, as host names
    contentListeners,    \* PlaywrightBus.contentListeners: key -> host names
    clientListeners,     \* PlaywrightBus.clientListeners, as the clientIds that have one
    busNextId,           \* number of calls made by the clients
    busCalls,            \* [BusIds -> the call: its low-level client and its Request]
    busPending,          \* pairs <<clientId, id>>: the pending tables of the low-level clients
    busHandled,          \* pairs <<host, id>>: the host handled the Request
    busJobs,             \* invocations whose Response is still to be sent
    busDelivered,        \* pairs <<clientId, id>>: the Response reached a listener of the client
    busSettles           \* [BusIds -> Seq of clientIds]: who settled the call

busVars == <<backgroundListeners, contentListeners, clientListeners, busNextId, busCalls,
             busPending, busHandled, busJobs, busDelivered, busSettles>>

BusCallRecord(clientId, route, service) == [clientId |-> clientId, route |-> route, service |-> service]
NoBusCall == BusCallRecord(UNDEF, BackgroundRoute, UNDEF)

\* A bus that hands a content message to the listeners of every target.
ContentListenersFor_All(listeners, targetId) == UNION {listeners[k] : k \in DOMAIN listeners}

\* sendToContent: this.contentListeners.get(this.targetKey(targetId))
ContentListenersFor(listeners, targetId) == MapGetSet(listeners, TargetKey(targetId))

\* PlaywrightMessageAdapter.sendMessage: the listeners the bus invokes.
ListenersFor(route) ==
    IF route.to = "background" THEN backgroundListeners
    ELSE ContentListenersFor(contentListeners, route.targetId)

\* handleIncomingMessage lets a Request through when rawMessage.to is the
\* side of the host.
HostAccepts(host, to) == to = BridgeHosts[host].side

\* sendToClient(clientId, message) and the client's response listener.
DeliverToClient(pend, deliv, setl, clientId, id) ==
    IF clientId \notin clientListeners
    THEN [pend |-> pend, deliv |-> deliv, setl |-> setl]
    ELSE [pend |-> pend \ {<<clientId, id>>},
          deliv |-> deliv \cup {<<clientId, id>>},
          setl |-> IF <<clientId, id>> \in pend
                   THEN [setl EXCEPT ![id] = Append(@, clientId)] ELSE setl]

\* createBackgroundHost()
CreateBackgroundHost(host) ==
    /\ BridgeHosts[host].side = "background"
    /\ host \notin backgroundListeners
    /\ backgroundListeners' = backgroundListeners \cup {host}
    /\ UNCHANGED <<contentListeners, clientListeners, busNextId, busCalls, busPending,
                   busHandled, busJobs, busDelivered, busSettles>>

\* createContentHost(targetId)
CreateContentHost(host) ==
    /\ BridgeHosts[host].side = "content"
    /\ LET key == TargetKey(BridgeHosts[host].targetId)
       IN  /\ host \notin MapGetSet(contentListeners, key)
           /\ contentListeners' = MapSet(contentListeners, key, MapGetSet(contentListeners, key) \cup {host})
    /\ UNCHANGED <<backgroundListeners, clientListeners, busNextId, busCalls, busPending,
                   busHandled, busJobs, busDelivered, busSettles>>

\* A call() that hands the Request to the transport without having stored
\* the pending entry.
PendingSet_Skipped(pend, entry) == pend

\* RPCClient.call: this.pending.set(id, { resolve, reject }), done before
\* messageAdapter.sendMessage.
PendingSet(pend, entry) == pend \cup {entry}

\* PlaywrightRPCClient.call(service, method, to, args, { targetId }): the
\* low-level client of the route (created on first use) stores the pending
\* entry and sends the Request; the bus invokes the listeners of the route at
\* once. A host that accepts it answers an unknown service on the spot and
\* queues the invocation of a known one.
BusCall(client, route, service) ==
    /\ busNextId < MaxBusCalls
    /\ LET id == busNextId + 1
           clientId == ClientIdOf(client, route)
           accepting == {h \in ListenersFor(route) : HostAccepts(h, route.to)}
           listening == clientListeners \cup {clientId}
           unknown == service \notin BusRegistered
           pend0 == PendingSet(busPending, <<clientId, id>>)
       IN  /\ busNextId' = id
           /\ busCalls' = [busCalls EXCEPT ![id] = BusCallRecord(clientId, route, service)]
           /\ clientListeners' = listening
           /\ busHandled' = busHandled \cup {<<h, id>> : h \in accepting}
           /\ IF unknown /\ accepting # {}
              THEN /\ busPending' = pend0 \ {<<clientId, id>>}
                   /\ busDelivered' = busDelivered \cup {<<clientId, id>>}
                   /\ busSettles' = IF <<clientId, id>> \in pend0
                                    THEN [busSettles EXCEPT ![id] = Append(@, clientId)]
                                    ELSE busSettles
                   /\ UNCHANGED busJobs
              ELSE /\ busPending' = pend0
                   /\ busJobs' = busJobs \cup {[host |-> h, id |-> id, clientId |-> clientId] : h \in accepting}
                   /\ UNCHANGED <<busDelivered, busSettles>>
    /\ UNCHANGED <<backgroundListeners, contentListeners>>

\* The invoked method has returned: sendResponse posts the Response to the
\* client named in the sender context of the Request.
BusRespond(j) ==
    /\ j \in busJobs
    /\ busJobs' = busJobs \ {j}
    /\ LET after == DeliverToClient(busPending, busDelivered, busSettles, j.clientId, j.id)
       IN  /\ busPending' = after.pend
           /\ busDelivered' = after.deliv
           /\ busSettles' = after.setl
    /\ UNCHANGED <<backgroundListeners, contentListeners, clientListeners, busNextId,
                   busCalls, busHandled>>

BusInit ==
    /\ backgroundListeners = {}
    /\ contentListeners = EmptyMap
    /\ clientListeners = {ClientIdOf(c, BackgroundRoute) : c \in BridgeClients}
    /\ busNextId = 0
    /\ busCalls = [i \in BusIds |-> NoBusCall]
    /\ busPending = {}
    /\ busHandled = {}
    /\ busJobs = {}
    /\ busDelivered = {}
    /\ busSettles = [i \in BusIds |-> <<>>]

\* The variables of the parts added to the five base specifications.
moreVars == <<dispVars, clientVars, relayVars, busVars, obsVars>>
MoreInit == DispInit /\ clientDisposed = FALSE /\ RelayInit /\ BusInit /\ ObsInit

(***************************************************************************)
(* Specifications.                                                         *)
(***************************************************************************)
vars == <<rpcVars, readyVars, hubVars, errVars, moreVars>>

RpcInit(lim, kinds) ==
    /\ \E k \in kinds : hostKind = [h \in Hosts |-> k]
    /\ services = [h \in Hosts |-> {}]
    /\ limit = lim
    /\ nextId = 0
    /\ calls = [i \in Ids |-> NoRequest]
    /\ pending = {}
    /\ settles = [i \in Ids |-> <<>>]
    /\ job = [h \in Hosts |-> [i \in Ids |-> NoJob]]
    /\ respNet = {}

\* One host of any class answering the calls of one client.
ServingHosts == {"h1"}

Init == RpcInit(MaxCalls, HostKinds) /\ ReadyInit /\ HubInit /\ ErrIdle /\ MoreInit

Next ==
    \/ \E h \in ServingHosts, k \in RegisteredKeys : Register(h, k) /\ UNCHANGED <<readyVars, hubVars, errVars, moreVars>>
    \/ \E s \in RequestServices, m \in RequestMethods :
          Call(s, m, ServingHosts) /\ UNCHANGED <<readyVars, hubVars, errVars, moreVars>>
    \/ \E h \in ServingHosts, id \in Ids, out \in Outcomes :
          HostReceive(h, id, out) /\ UNCHANGED <<readyVars, hubVars, errVars, moreVars>>
    \/ \E h \in ServingHosts, id \in Ids : HostSettle(h, id) /\ UNCHANGED <<readyVars, hubVars, errVars, moreVars>>
    \/ \E m \in respNet : OnResponse(m) /\ UNCHANGED <<readyVars, hubVars, errVars, moreVars>>

Spec == Init /\ [][Next]_vars

\* One client with several calls outstanding, each Request heard by two hosts.
ClientKinds == {"unified"}
ClientMethods == {"add"}
ClientServices == {"IMath"}

InitClient == RpcInit(MaxClientCalls, ClientKinds) /\ ReadyInit /\ HubInit /\ ErrIdle /\ MoreInit

NextClient ==
    \/ \E h \in Hosts, k \in RegisteredKeys : Register(h, k) /\ UNCHANGED <<readyVars, hubVars, errVars, moreVars>>
    \/ \E s \in ClientServices, m \in ClientMethods : Call(s, m, Hosts) /\ UNCHANGED <<readyVars, hubVars, errVars, moreVars>>
    \/ \E h \in Hosts, id \in Ids, out \in ClientOutcomes : HostReceive(h, id, out) /\ UNCHANGED <<readyVars, hubVars, errVars, moreVars>>
    \/ \E h \in Hosts, id \in Ids : HostSettle(h, id) /\ UNCHANGED <<readyVars, hubVars, errVars, moreVars>>
    \/ \E m \in respNet : OnResponse(m) /\ UNCHANGED <<readyVars, hubVars, errVars, moreVars>>

SpecClient == InitClient /\ [][NextClient]_vars

\* The same client, which may be disposed at any moment.
DisposalOutcomes == {Returned("sync", "5"), Returned("async", "5")}

NextClientDispose ==
    \/ \E h \in Hosts, k \in RegisteredKeys : Register(h, k) /\ UNCHANGED <<readyVars, hubVars, errVars, moreVars>>
    \/ \E s \in ClientServices, m \in ClientMethods : Call(s, m, Hosts) /\ UNCHANGED <<readyVars, hubVars, errVars, moreVars>>
    \/ \E h \in Hosts, id \in Ids, out \in DisposalOutcomes : HostReceive(h, id, out) /\ UNCHANGED <<readyVars, hubVars, errVars, moreVars>>
    \/ \E h \in Hosts, id \in Ids : HostSettle(h, id) /\ UNCHANGED <<readyVars, hubVars, errVars, moreVars>>
    \/ \E m \in respNet : OnResponse(m) /\ UNCHANGED <<readyVars, hubVars, errVars, moreVars>>
    \/ ClientDispose /\ UNCHANGED <<readyVars, hubVars, errVars, dispVars, relayVars, busVars, obsVars>>

SpecClientDispose == InitClient /\ [][NextClientDispose]_vars

\* The error path for every kind of thrown value.
InitErr == RpcInit(MaxCalls, {"unified"}) /\ ReadyInit /\ HubInit /\ ErrInit /\ MoreInit

NextErr ==
    \/ ErrCatch /\ UNCHANGED <<rpcVars, readyVars, hubVars, moreVars>>
    \/ ErrReject /\ UNCHANGED <<rpcVars, readyVars, hubVars, moreVars>>

SpecErr == InitErr /\ [][NextErr]_vars

\* The readiness handshake.
InitReady == RpcInit(MaxCalls, {"unified"}) /\ ReadyInit /\ HubInit /\ ErrIdle /\ MoreInit

NextReady ==
    \/ CreateRPCService /\ UNCHANGED <<rpcVars, hubVars, errVars, moreVars>>
    \/ CheckTimerFires /\ UNCHANGED <<rpcVars, hubVars, errVars, moreVars>>
    \/ RetryTimerFires /\ UNCHANGED <<rpcVars, hubVars, errVars, moreVars>>
    \/ PongArrives /\ UNCHANGED <<rpcVars, hubVars, errVars, moreVars>>
    \/ HostListens /\ UNCHANGED <<rpcVars, hubVars, errVars, moreVars>>
    \/ PingArrives /\ UNCHANGED <<rpcVars, hubVars, errVars, moreVars>>
    \/ ProxyCall /\ UNCHANGED <<rpcVars, hubVars, errVars, moreVars>>
    \/ Tick /\ UNCHANGED <<rpcVars, hubVars, errVars, moreVars>>

SpecReady == InitReady /\ [][NextReady]_vars

\* The handshake with timers that fire when due and messages that are
\* delivered before the clock moves on; the host may start listening at any
\* time, or never.
NextReadyLive ==
    \/ CreateRPCService /\ UNCHANGED <<rpcVars, hubVars, errVars, moreVars>>
    \/ CheckTimerFires /\ UNCHANGED <<rpcVars, hubVars, errVars, moreVars>>
    \/ RetryTimerFires /\ UNCHANGED <<rpcVars, hubVars, errVars, moreVars>>
    \/ PongArrives /\ UNCHANGED <<rpcVars, hubVars, errVars, moreVars>>
    \/ HostListens /\ UNCHANGED <<rpcVars, hubVars, errVars, moreVars>>
    \/ PingArrives /\ UNCHANGED <<rpcVars, hubVars, errVars, moreVars>>
    \/ ProxyCall /\ UNCHANGED <<rpcVars, hubVars, errVars, moreVars>>
    \/ TickAfterDelivery /\ UNCHANGED <<rpcVars, hubVars, errVars, moreVars>>

SpecReadyLive ==
    /\ InitReady
    /\ [][NextReadyLive]_vars
    /\ WF_vars(CheckTimerFires /\ UNCHANGED <<rpcVars, hubVars, errVars, moreVars>>)
    /\ WF_vars(RetryTimerFires /\ UNCHANGED <<rpcVars, hubVars, errVars, moreVars>>)
    /\ WF_vars(PongArrives /\ UNCHANGED <<rpcVars, hubVars, errVars, moreVars>>)
    /\ WF_vars(PingArrives /\ UNCHANGED <<rpcVars, hubVars, errVars, moreVars>>)
    /\ WF_vars(TickAfterDelivery /\ UNCHANGED <<rpcVars, hubVars, errVars, moreVars>>)

\* The subscription hub.
InitHub == RpcInit(MaxCalls, {"unified"}) /\ ReadyInit /\ HubInit /\ ErrIdle /\ MoreInit

NextHub ==
    \/ \E k \in SubscriptionKeys, t \in Tabs : HandleSubscription(k, t) /\ UNCHANGED <<rpcVars, readyVars, errVars, moreVars>>
    \/ \E k \in SubscriptionKeys, t \in Tabs : HandleUnsubscription(k, t) /\ UNCHANGED <<rpcVars, readyVars, errVars, moreVars>>
    \/ \E t \in Tabs : HandleTabRemove(t) /\ UNCHANGED <<rpcVars, readyVars, errVars, moreVars>>
    \/ \E i \in IdentifierKeys, k \in InstanceKeys, v \in InitialValues :
          CreateSubject(i, k, v) /\ UNCHANGED <<rpcVars, readyVars, errVars, moreVars>>
    \/ \E s \in 1..MaxHubSteps, v \in NextValues : SubjectNext(s, v) /\ UNCHANGED <<rpcVars, readyVars, errVars, moreVars>>
    \/ \E s \in 1..MaxHubSteps : SubjectComplete(s) /\ UNCHANGED <<rpcVars, readyVars, errVars, moreVars>>
    \/ \E k \in InstanceKeys : RemoveSubject(k) /\ UNCHANGED <<rpcVars, readyVars, errVars, moreVars>>
    \/ ManagerDispose /\ UNCHANGED <<rpcVars, readyVars, errVars, moreVars>>

SpecHub == InitHub /\ [][NextHub]_vars

\* The teardown registry.
InitDisp == RpcInit(MaxCalls, {"unified"}) /\ ReadyInit /\ HubInit /\ ErrIdle /\ MoreInit

NextDisp ==
    \/ \E c \in TeardownCallbacks : DisposeWithMe(c) /\ UNCHANGED <<rpcVars, readyVars, hubVars, errVars, clientVars, relayVars, busVars, obsVars>>
    \/ Dispose /\ UNCHANGED <<rpcVars, readyVars, hubVars, errVars, clientVars, relayVars, busVars, obsVars>>
    \/ IsDisposed /\ UNCHANGED <<rpcVars, readyVars, hubVars, errVars, clientVars, relayVars, busVars, obsVars>>

SpecDisp == InitDisp /\ [][NextDisp]_vars

\* The relay: calls from the pages and content scripts of two tabs.
baseVars == <<rpcVars, readyVars, hubVars, errVars, dispVars, clientVars, busVars, obsVars>>

InitRelay == RpcInit(MaxCalls, {"unified"}) /\ ReadyInit /\ HubInit /\ ErrIdle /\ MoreInit

NextRelay ==
    \/ \E t \in Tabs, k \in ContentKeys : RegisterContent(t, k) /\ UNCHANGED baseVars
    \/ \E t \in Tabs, s \in RelayServices, to \in Targets : WebCall(t, s, to) /\ UNCHANGED baseVars
    \/ \E t \in Tabs, s \in RelayServices : ContentCall(t, s) /\ UNCHANGED baseVars
    \/ \E m \in runtimeNet : BackgroundReceive(m) /\ UNCHANGED baseVars
    \/ \E m \in tabNet : TabReceive(m) /\ UNCHANGED baseVars

\* The browser delivers every message that was sent.
SpecRelay ==
    /\ InitRelay
    /\ [][NextRelay]_vars
    /\ WF_vars(\E m \in runtimeNet : BackgroundReceive(m) /\ UNCHANGED baseVars)
    /\ WF_vars(\E m \in tabNet : TabReceive(m) /\ UNCHANGED baseVars)

\* The calls of one tab through the relay, with the pings of its
\* content-script client to the background host and of the background's tab
\* client to the content host of the other tab.
\* The tab whose content-script client pings the background, and the tab
\* whose content host the background pings.
PingingTabs == {1}
PingedTabs == {2}

NextHostPing ==
    \/ \E t \in Tabs, k \in ContentKeys : RegisterContent(t, k) /\ UNCHANGED baseVars
    \/ \E t \in PingingTabs, s \in RelayServices, to \in Targets : WebCall(t, s, to) /\ UNCHANGED baseVars
    \/ \E t \in PingingTabs, s \in RelayServices : ContentCall(t, s) /\ UNCHANGED baseVars
    \/ \E m \in runtimeNet : BackgroundReceive(m) /\ UNCHANGED baseVars
    \/ \E m \in tabNet : TabReceive(m) /\ UNCHANGED baseVars
    \/ \E t \in PingingTabs : ContentPing(t) /\ UNCHANGED baseVars
    \/ \E m \in runtimeNet : BackgroundPing(m) /\ UNCHANGED baseVars
    \/ \E m \in tabNet : TabReceivePong(m) /\ UNCHANGED baseVars
    \/ \E t \in PingedTabs : TabClientPing(t) /\ UNCHANGED baseVars
    \/ \E m \in tabNet : ContentHostPing(m) /\ UNCHANGED baseVars
    \/ \E m \in runtimeNet : BackgroundReceivePong(m) /\ UNCHANGED baseVars

SpecHostPing == InitRelay /\ [][NextHostPing]_vars

\* The readiness handshake of a web client behind the relay, in tab 1.
WebClientTab == 1
sideVars == <<rpcVars, hubVars, errVars, dispVars, clientVars, busVars, obsVars>>

InitWebReady == RpcInit(MaxCalls, {"unified"}) /\ ReadyInit /\ HubInit /\ ErrIdle /\ MoreInit

NextWebReady ==
    \/ CreateRPCService /\ UNCHANGED <<sideVars, relayVars>>
    \/ CheckTimerFires /\ UNCHANGED <<sideVars, relayVars>>
    \/ RetryTimerFires /\ UNCHANGED <<sideVars, relayVars>>
    \/ Tick /\ UNCHANGED <<sideVars, relayVars>>
    \/ WindowPing(WebClientTab) /\ UNCHANGED sideVars
    \/ \E t \in Tabs : ContentPing(t) /\ UNCHANGED sideVars
    \/ \E m \in runtimeNet : BackgroundPing(m) /\ UNCHANGED sideVars
    \/ \E m \in tabNet : TabReceivePong(m) /\ UNCHANGED sideVars

SpecWebReady == InitWebReady /\ [][NextWebReady]_vars

\* The readiness handshake of a runtime client (popup, side panel) that
\* addresses the background, while the background pings the content hosts
\* of the tabs; the background host may start listening at any time.
NextRuntimeReady ==
    \/ CreateRPCService /\ UNCHANGED <<sideVars, relayVars>>
    \/ CheckTimerFires /\ UNCHANGED <<sideVars, relayVars>>
    \/ RetryTimerFires /\ UNCHANGED <<sideVars, relayVars>>
    \/ TickAfterDelivery /\ UNCHANGED <<sideVars, relayVars>>
    \/ HostListens /\ UNCHANGED <<sideVars, relayVars>>
    \/ RuntimePing /\ UNCHANGED sideVars
    \/ \E m \in runtimeNet : hostUp /\ BackgroundPing(m) /\ UNCHANGED sideVars
    \/ \E m \in runtimeNet : ~hostUp /\ PingUnheard(m) /\ UNCHANGED sideVars
    \/ \E t \in Tabs : pongSeen < MaxTabPings /\ TabClientPing(t) /\ UNCHANGED sideVars
    \/ \E m \in tabNet : ContentHostPing(m) /\ UNCHANGED sideVars
    \/ \E m \in runtimeNet : RuntimeReceivePong(m) /\ UNCHANGED sideVars

SpecRuntimeReady == InitWebReady /\ [][NextRuntimeReady]_vars

\* Observables in the pages and content scripts of the tabs, and the hub.
offHubRelayVars == <<rpcVars, readyVars, errVars, dispVars, clientVars, busVars>>

NextObservable ==
    \/ \E t \in Tabs, k \in ObservedKeys :
          WebObservable(t, k) /\ UNCHANGED offHubRelayVars
    \/ \E t \in ObserverTabs, k \in ObservedKeys :
          RuntimeObservable(t, k) /\ UNCHANGED offHubRelayVars
    \/ \E m \in runtimeNet : HubReceive(m) /\ UNCHANGED offHubRelayVars
    \/ \E i \in IdentifierKeys, k \in InstanceKeys, v \in InitialValues :
          CreateSubject(i, k, v) /\ UNCHANGED <<offHubRelayVars, relayVars, obsVars>>
    \/ \E s \in 1..MaxHubSteps, v \in NextValues :
          SubjectNext(s, v) /\ UNCHANGED <<offHubRelayVars, relayVars, obsVars>>

SpecObservable == InitRelay /\ [][NextObservable]_vars

\* Runtime observables of one content script, their unsubscribe() and
\* dispose(), and the Subjects of the hub.
NextObserver ==
    \/ \E t \in ObserverTabs, k \in ObservedKeys :
          RuntimeObservable(t, k) /\ UNCHANGED offHubRelayVars
    \/ \E o \in observables : ObservableUnsubscribe(o) /\ UNCHANGED offHubRelayVars
    \/ \E o \in observables : ObservableDispose(o) /\ UNCHANGED offHubRelayVars
    \/ \E m \in runtimeNet : HubReceive(m) /\ UNCHANGED offHubRelayVars
    \/ \E i \in IdentifierKeys, k \in InstanceKeys, v \in InitialValues :
          CreateSubject(i, k, v) /\ UNCHANGED <<offHubRelayVars, relayVars, obsVars>>
    \/ \E s \in 1..MaxHubSteps, v \in ObservedValues :
          SubjectNext(s, v) /\ UNCHANGED <<offHubRelayVars, relayVars, obsVars>>
    \/ \E s \in 1..MaxHubSteps :
          SubjectComplete(s) /\ UNCHANGED <<offHubRelayVars, relayVars, obsVars>>

SpecObserver == InitRelay /\ [][NextObserver]_vars

\* The Playwright bridge.
offBusVars == <<rpcVars, readyVars, hubVars, errVars, dispVars, clientVars, relayVars, obsVars>>

InitBus == RpcInit(MaxCalls, {"playwright"}) /\ ReadyInit /\ HubInit /\ ErrIdle /\ MoreInit

NextBus ==
    \/ \E h \in BridgeHostNames : CreateBackgroundHost(h) /\ UNCHANGED offBusVars
    \/ \E h \in BridgeHostNames : CreateContentHost(h) /\ UNCHANGED offBusVars
    \/ \E c \in BridgeClients, r \in Routes, s \in BusServices : BusCall(c, r, s) /\ UNCHANGED offBusVars
    \/ \E j \in busJobs : BusRespond(j) /\ UNCHANGED offBusVars

SpecBus == InitBus /\ [][NextBus]_vars

(***************************************************************************)
(* Properties.                                                             *)
(***************************************************************************)
\* The Responses a host has sent, each with the host and the id it answers.
SentJobs == {<<h, id>> \in Hosts \X Ids : job[h][id].nsent >= 1}

\* C1: a call's promise is settled at most once, only by a Response that
\* carries the call's own id, and the settled call is out of the pending
\* table, so a later Response with the same id is dropped.
C1_SettledAtMostOnce ==
    \A id \in Ids :
        /\ Len(settles[id]) <= 1
        /\ \A i \in 1..Len(settles[id]) : settles[id][i].rid = id
        /\ id \in pending => Len(settles[id]) = 0
        /\ Len(settles[id]) = 1 => id \notin pending

\* Two hosts both answered one call; both Responses have reached the client
\* and the call is settled, while another call is settled too.
C1_Witness ==
    \E id \in Ids, other \in Ids :
        /\ id # other
        /\ \A h \in Hosts : job[h][id].nsent = 1
        /\ \A m \in respNet : m.resp.id # id
        /\ Len(settles[id]) = 1
        /\ Len(settles[other]) = 1
        /\ settles[id][1].kind # settles[other][1].kind

\* C22: with several calls outstanding and Responses arriving in any order,
\* between new calls, every settlement of a call is the one made from a
\* Response that carries the call's own id (the result or the error of that
\* Response, as a host sent it for that id), and the arrival of a Response
\* settles the pending call of its id and leaves every other call as it was.
C22_SettledByOwnResponse ==
    /\ [](\A id \in Ids : \A i \in 1..Len(settles[id]) :
              LET s == settles[id][i]
              IN  /\ s.rid = id
                  /\ job[s.by][id].nsent >= 1
                  /\ job[s.by][id].sent.id = id
                  /\ s = SettlementOf(job[s.by][id].sent, s.by))
    /\ [][\A m \in respNet :
              OnResponse(m) =>
                  /\ \A id \in Ids \ {m.resp.id} :
                         /\ settles'[id] = settles[id]
                         /\ id \in pending' <=> id \in pending
                  /\ m.resp.id \in pending =>
                         /\ m.resp.id \notin pending'
                         /\ settles'[m.resp.id] = Append(settles[m.resp.id], SettlementOf(m.resp, m.h))
      ]_vars

\* Two calls were outstanding; the Response of the later call arrived first
\* and settled it, while the earlier call is still pending and its Response,
\* of the other kind, is on its way.
C22_Witness ==
    \E early \in Ids, late \in Ids :
        /\ early < late
        /\ early \in pending
        /\ Len(settles[late]) = 1
        /\ \E m \in respNet :
               /\ m.resp.id = early
               /\ SettlementOf(m.resp, m.h).kind # settles[late][1].kind

\* C2: a host sends at most one Response for a request id, whatever the
\* outcome (unknown service, unknown method, value, rejection, throw).
C2_AtMostOneResponse ==
    /\ \A h \in Hosts, id \in Ids : job[h][id].nsent <= 1
    /\ \A h \in Hosts, id \in Ids : Cardinality({m \in respNet : m.h = h /\ m.resp.id = id}) <= 1

\* One Request was refused as an unknown method and one ended in a throw,
\* each answered once.
C2_Witness ==
    \E h \in Hosts, a \in Ids, b \in Ids :
        /\ job[h][a].phase = "done" /\ ~job[h][a].invoked /\ job[h][a].registered
        /\ job[h][a].nsent = 1
        /\ job[h][b].phase = "done" /\ job[h][b].out.kind = "throw"
        /\ job[h][b].nsent = 1

\* C3: every Request for a registered service and method whose handling has
\* ended (the method returned, threw or rejected with any value) has been
\* answered with a Response.
C3_EveryEndedRequestAnswered ==
    \A h \in Hosts, id \in Ids :
        (/\ job[h][id].phase \in {"done", "crashed"}
         /\ job[h][id].registered
         /\ calls[id].method \in ImplMethods) => job[h][id].nsent >= 1

C5_UnknownServiceOrMethod ==
    \A h \in Hosts, id \in Ids :
        LET j == job[h][id] IN
        /\ (j.phase \in {"awaiting", "done", "crashed"} /\ ~j.registered) =>
              /\ ~j.invoked
              /\ j.nsent = 1
              /\ j.sent.keys = {"error"}
              /\ j.sent.error.message = "Unknown service: " \o calls[id].service
        /\ (j.phase = "done" /\ j.registered /\ calls[id].method \notin ImplMethods) =>
              /\ ~j.invoked
              /\ j.sent.keys = {"error"}
              /\ j.sent.error.message = "Unknown method: " \o calls[id].method

C7_ResultXorErrorUnlessUndefined ==
    \A <<h, id>> \in SentJobs :
        LET j == job[h][id] IN
        /\ Cardinality(j.sent.keys) <= 1
        /\ j.out.kind = "return" =>
              /\ "error" \notin j.sent.keys
              /\ "result" \in j.sent.keys <=> (j.out.value # UNDEF \/ hostKind[h] = "playwright")
        /\ j.out.kind # "return" => j.sent.keys = {"error"}
        /\ \A m \in respNet : Cardinality(m.resp.keys) <= 1

\* A method returned undefined and its Response went out with neither field,
\* while another Request was answered with an error.
C7_Witness ==
    \E h \in Hosts, a \in Ids, b \in Ids :
        /\ job[h][a].nsent = 1 /\ job[h][a].out = Returned("sync", UNDEF)
        /\ job[h][a].sent.keys = {}
        /\ job[h][b].nsent = 1 /\ job[h][b].sent.keys = {"error"}

\* C7 as stated: every Response carries exactly one of result and error.
C7_ExactlyOneField ==
    \A <<h, id>> \in SentJobs : Cardinality(job[h][id].sent.keys) = 1

\* C8: while no pong has reached the client no proxy exists and no call
\* Request has been sent; a handshake that timed out has rejected with the
\* service-not-ready error, returned no proxy and sent no call Request.
C8_TimeoutRejects ==
    /\ pongSeen = 0 => ~proxy /\ proxyCalls = 0 /\ hs # "ready"
    /\ hs = "failed" =>
          /\ readyError = "RPC service not ready (timeout)"
          /\ ~proxy
          /\ proxyCalls = 0
          /\ now - startTime >= ReadyTimeout
    /\ hs # "failed" => readyError = UNDEF

\* The handshake retried its ping until the timeout and failed without a pong.
C8_Witness ==
    /\ hs = "failed"
    /\ pongSeen = 0
    /\ round >= 2
    /\ readyError = "RPC service not ready (timeout)"

\* The handshake is running: createRPCService has started and waitReady has
\* neither returned nor thrown.
HandshakeRunning == hs \in {"checking", "sleeping"}

\* C23 as stated: a host whose listener is registered while the handshake is
\* running and its timeout has not elapsed makes createRPCService return the
\* proxy.
C23_ListeningBeforeTimeoutSucceeds ==
    (hostUp /\ HandshakeRunning /\ now - startTime < ReadyTimeout) ~> (hs = "ready" /\ proxy)

\* C23: a host whose listener is registered while the handshake is running
\* and more than one check-and-retry period (1500 ms) of its timeout is left
\* gets a retried ping, answers it, and createRPCService returns the proxy;
\* and a handshake that has started ends, with the proxy or with the timeout
\* error.
C23_ListeningBeforeLastPingSucceeds ==
    /\ (hostUp /\ HandshakeRunning /\ now - startTime < ReadyTimeout - (CheckTimeout + RetryDelay))
           ~> (hs = "ready" /\ proxy)
    /\ HandshakeRunning ~> (hs \in {"ready", "failed"})

\* The first ping found no listener; the host registered later and answered
\* a retried ping, and createRPCService returned the proxy.
C23_Witness ==
    /\ hs = "ready"
    /\ proxy
    /\ round >= 2
    /\ hostUp
    /\ pongSeen = 1
    /\ readyError = UNDEF

\* The Subject of a stream, if it is in the hub's table.
SubjectsOfStream(key) ==
    {subjects[k] : k \in {x \in DOMAIN subjects :
        FinalKey(subjectObjs[subjects[x]].identifier, subjectObjs[subjects[x]].key) = key}}

\* The value a Subject holds: that of its latest next(), else the initial one.
CurrentValue(subject) ==
    IF lastNext[subject] # UNDEF THEN lastNext[subject] ELSE subjectObjs[subject].initialValue

LastSent(log) == log[Len(log)]

\* C9: when the Subject of a stream is created, every subscriber waiting for
\* that stream's subscription key is sent the initial value, once.
C9_PendingReceiveInitial ==
    [][\A i \in IdentifierKeys, k \in InstanceKeys, v \in InitialValues :
          CreateSubject(i, k, v) =>
              \A t \in MapGetSet(pendingSubscriptions, FinalKey(i, k)) :
                  /\ Len(tabLog'[t]) = Len(tabLog[t]) + 1
                  /\ LastSent(tabLog'[t]).operation = "next"
                  /\ LastSent(tabLog'[t]).value = v]_vars

\* C10: a subscriber that subscribes to the key of a stream whose Subject
\* exists becomes active for the key and is sent the Subject's current value.
C10_LateSubscriberGetsCurrent ==
    [][\A k \in SubscriptionKeys, t \in Tabs :
          (HandleSubscription(k, t) /\ SubjectsOfStream(k) # {}) =>
              /\ t \in MapGetSet(activeSenders', k)
              /\ Len(tabLog'[t]) = Len(tabLog[t]) + 1
              /\ LastSent(tabLog'[t]).operation = "next"
              /\ \E s \in SubjectsOfStream(k) : LastSent(tabLog'[t]).value = CurrentValue(s)]_vars

\* C11: handleUnsubscription(key, id) takes id out of the active and the
\* pending set of key and leaves every other sender where it was; id comes
\* back into the active set of key only by subscribing again; and a next() on
\* a Subject that is not completed appends the value-update to the log of
\* exactly the senders active for the Subject's key, so the unsubscribed id
\* gets nothing and every other active subscriber gets the update.
C11_UnsubscribedGetsNoNext ==
    [][/\ \A k \in SubscriptionKeys, t \in Tabs :
              HandleUnsubscription(k, t) =>
                  /\ t \notin MapGetSet(activeSenders', k)
                  /\ t \notin MapGetSet(pendingSubscriptions', k)
                  /\ MapGetSet(activeSenders', k) = MapGetSet(activeSenders, k) \ {t}
       /\ \A k \in SubscriptionKeys, t \in Tabs :
              (/\ t \notin MapGetSet(activeSenders, k)
               /\ t \notin MapGetSet(pendingSubscriptions, k)
               /\ t \in MapGetSet(activeSenders', k)) => HandleSubscription(k, t)
       /\ \A s \in 1..MaxHubSteps, v \in NextValues :
              (SubjectNext(s, v) /\ ~subjectObjs[s].completed) =>
                  LET k == FinalKey(subjectObjs[s].identifier, subjectObjs[s].key)
                  IN  \A t \in Tabs :
                          tabLog'[t] = IF t \in MapGetSet(activeSenders, k)
                                       THEN Append(tabLog[t], UpdateMessage("next", k, v, TRUE))
                                       ELSE tabLog[t]
      ]_vars

\* Two tabs subscribed to one key, tab 1 unsubscribed, and the next() that
\* followed reached tab 2 only: tab 1 holds nothing but its initial push.
C11_Witness ==
    \E s \in DOMAIN subjectObjs :
        LET k == FinalKey(subjectObjs[s].identifier, subjectObjs[s].key)
        IN  /\ lastNext[s] # UNDEF
            /\ closedTabs = {}
            /\ 1 \notin MapGetSet(activeSenders, k)
            /\ 1 \notin MapGetSet(pendingSubscriptions, k)
            /\ 2 \in MapGetSet(activeSenders, k)
            /\ tabLog[1] = <<UpdateMessage("next", k, "v0", FALSE)>>
            /\ tabLog[2] = <<UpdateMessage("next", k, "v0", FALSE),
                             UpdateMessage("next", k, lastNext[s], TRUE)>>

\* C12: completion is monotonic. A Subject that is completed stays completed,
\* and a next() or a complete() called on a completed Subject sends no
\* message and changes nothing in the hub: Subjects, sender sets, tab logs
\* and the latest value stay as they were.
C12_CompletedIsFinal ==
    [][/\ \A s \in DOMAIN subjectObjs : subjectObjs[s].completed => subjectObjs'[s].completed
       /\ \A s \in DOMAIN subjectObjs :
              (/\ subjectObjs[s].completed
               /\ (SubjectComplete(s) \/ \E v \in NextValues : SubjectNext(s, v))) =>
                  UNCHANGED <<subjects, subjectObjs, pendingSubscriptions, activeSenders,
                              tabLog, closedTabs, lastNext, managerDisposed>>
      ]_vars

\* A Subject with an active subscriber was completed, the subscriber was told
\* so, and a next() or complete() was called on it afterwards.
C12_Witness ==
    /\ lateCall
    /\ \E s \in DOMAIN subjectObjs :
           LET k == FinalKey(subjectObjs[s].identifier, subjectObjs[s].key)
           IN  /\ subjectObjs[s].completed
               /\ \E t \in MapGetSet(activeSenders, k) :
                      LastSent(tabLog[t]) = UpdateMessage("complete", k, UNDEF, TRUE)

\* C19: disposing the RemoteSubjectManager disposes the Subjects it created:
\* right after manager.dispose(), every Subject that was created through
\* createSubject and has not been removed reports isDisposed() = true.
C19_ManagerDisposeDisposesSubjects ==
    [][ManagerDispose =>
           \A k \in DOMAIN subjects' : subjectObjs'[subjects'[k]].disposed]_vars

\* C21: createSubject(identifier, instanceKey, initialValue) stores the new
\* Subject under the composite key `${identifier.key}-${instanceKey}`, the key
\* of the Subject's own broadcasts and of the subscribers' messages, and
\* moves the senders waiting under that key into its active set.
C21_CreateUsesCompositeKey ==
    [][\A i \in IdentifierKeys, k \in InstanceKeys, v \in InitialValues :
          CreateSubject(i, k, v) =>
              LET subject == Len(subjectObjs')
                  finalKey == FinalKey(subjectObjs'[subject].identifier, subjectObjs'[subject].key)
              IN  /\ MapHas(subjects', finalKey)
                  /\ subjects'[finalKey] = subject
                  /\ MapGetSet(pendingSubscriptions', finalKey) = {}
                  /\ MapGetSet(pendingSubscriptions, finalKey) \subseteq MapGetSet(activeSenders', finalKey)]_vars

\* C25: complete() on a Subject that is not completed clears the active
\* subscriber set of the Subject's key: after the call the hub holds no
\* active subscriber for the key.
C25_CompleteClearsActive ==
    [][\A s \in DOMAIN subjectObjs :
          (SubjectComplete(s) /\ ~subjectObjs[s].completed) =>
              MapGetSet(activeSenders', FinalKey(subjectObjs[s].identifier, subjectObjs[s].key)) = {}]_vars

\* C26: the removal of a tab takes the tab's id out of the pending and the
\* active set of every key, with no message from the tab, and leaves the
\* other ids in place; a removed tab is in no set afterwards, and no next(),
\* complete() or createSubject() sends anything to it.
C26_RemovedTabIsPurged ==
    /\ [](\A t \in closedTabs :
              /\ \A k \in DOMAIN activeSenders : t \notin activeSenders[k]
              /\ \A k \in DOMAIN pendingSubscriptions : t \notin pendingSubscriptions[k])
    /\ [][/\ \A t \in Tabs :
                  HandleTabRemove(t) =>
                      /\ \A k \in SubscriptionKeys \cup InstanceKeys :
                             /\ MapGetSet(activeSenders', k) = MapGetSet(activeSenders, k) \ {t}
                             /\ MapGetSet(pendingSubscriptions', k) = MapGetSet(pendingSubscriptions, k) \ {t}
                      /\ tabLog' = tabLog
          /\ \A gone \in closedTabs : tabLog'[gone] = tabLog[gone]
         ]_vars

\* Two tabs were active for one key, tab 1 was removed, and the next() that
\* followed reached tab 2 only.
C26_Witness ==
    \E s \in DOMAIN subjectObjs :
        LET k == FinalKey(subjectObjs[s].identifier, subjectObjs[s].key)
        IN  /\ lastNext[s] # UNDEF
            /\ closedTabs = {1}
            /\ MapGetSet(activeSenders, k) = {2}
            /\ tabLog[1] = <<UpdateMessage("next", k, "v0", FALSE)>>
            /\ tabLog[2] = <<UpdateMessage("next", k, "v0", FALSE),
                             UpdateMessage("next", k, lastNext[s], TRUE)>>

C28_PendingActiveDiscipline ==
    /\ [](\A k \in SubscriptionKeys :
              /\ MapGetSet(pendingSubscriptions, k) \cap MapGetSet(activeSenders, k) = {}
              /\ MapGetSet(pendingSubscriptions, k) # {} => SubjectsOfStream(k) = {})
    /\ [][\A k \in SubscriptionKeys, t \in Tabs :
              /\ (t \in MapGetSet(pendingSubscriptions, k) /\ t \in MapGetSet(activeSenders', k)) =>
                     \E i \in IdentifierKeys, ik \in InstanceKeys, v \in InitialValues :
                         CreateSubject(i, ik, v) /\ FinalKey(i, ik) = k
              /\ ~(t \in MapGetSet(activeSenders, k) /\ t \in MapGetSet(pendingSubscriptions', k))
      ]_vars

\* C31: every value-update message the hub hands to chrome.tabs.sendMessage,
\* the initial-value pushes of handleSubscription and createSubject
\* included, has the `type` property the subscriber's adapter dispatches by.
C31_UpdatesCarryType ==
    \A t \in Tabs : \A i \in 1..Len(tabLog[t]) : tabLog[t][i].typed

\* C38: next() and complete() called on a Subject that removeSubject has
\* removed hand no message to chrome.tabs.sendMessage, whatever Subjects and
\* subscribers the hub has by then.
C38_RemovedSubjectIsSilent ==
    [][\A subject \in DOMAIN subjectObjs :
          (/\ subjectObjs[subject].disposed
           /\ \/ SubjectComplete(subject)
              \/ \E v \in NextValues : SubjectNext(subject, v))
          => tabLog' = tabLog]_vars

\* C39: a subscription the hub handles for a key whose Subject has completed
\* sends nothing to the subscriber: no initial value, no other 'next'.
C39_NoInitialValueAfterComplete ==
    [][\A k \in SubscriptionKeys, t \in Tabs :
          (/\ HandleSubscription(k, t)
           /\ MapHas(subjects, k)
           /\ subjectObjs[subjects[k]].completed)
          => tabLog' = tabLog]_vars

\* C40: once dispose() has been called, every callback that has been passed
\* to disposeWithMe, before or after the dispose(), has run.
C40_NoTeardownLost ==
    isDisposedFlag => \A i \in 1..Len(disposeCallbacks) : teardownRuns[disposeCallbacks[i]] >= 1

C18_DisposedClientNeverSettles ==
    [][clientDisposed =>
           /\ clientDisposed'
           /\ settles' = settles
           /\ pending \subseteq pending'
           /\ \A m \in respNet : OnResponse(m) => UNCHANGED <<pending, settles>>]_vars

\* A call was in flight when the client was disposed; both hosts answered,
\* both Responses have arrived since, and the call is still pending and
\* unsettled.
C18_Witness ==
    /\ clientDisposed
    /\ \E id \in pending :
           /\ settles[id] = <<>>
           /\ \A h \in Hosts : job[h][id].nsent = 1
           /\ \A m \in respNet : m.resp.id # id

\* C14: a Request a web page sends with target role "content" for a service
\* registered on the content-script host of its tab is dispatched to that
\* service by the relay's listener: the call step itself ends with the
\* method invoked by the tab's content host.
C14_WebToContentDispatchedLocally ==
    [][\A t \in Tabs, s \in ContentKeys :
           (WebCall(t, s, "content") /\ s \in contentServices[t]) =>
               \E inv \in invocations' : inv.host = t /\ inv.id = relayNextId']_vars

\* A web call to a registered background service.
WebToBackground(id) ==
    /\ relayCalls[id].msg.from = "web"
    /\ relayCalls[id].msg.to = "background"
    /\ relayCalls[id].msg.service \in BackgroundKeys

\* C15: every Response the background sends goes to the tab the Request came
\* from and carries the Request's from; a call is settled at most once, by
\* the client that issued it and with the Response for its own id; and a web
\* call to a registered background service, relayed by the content script,
\* is eventually resolved by that web client.
C15_ResponseReachesRequester ==
    /\ [](/\ \A m \in tabNet :
                 /\ m.tab = relayCalls[m.msg.resp.id].tab
                 /\ m.msg.from = relayCalls[m.msg.resp.id].msg.from
          /\ \A id \in RelayIds :
                 /\ Len(clientSettles[id]) <= 1
                 /\ \A i \in 1..Len(clientSettles[id]) :
                        /\ clientSettles[id][i].tab = relayCalls[id].tab
                        /\ clientSettles[id][i].origin = relayCalls[id].msg.from
                        /\ clientSettles[id][i].settlement.rid = id)
    /\ \A id \in RelayIds :
           WebToBackground(id) ~>
               (/\ Len(clientSettles[id]) = 1
                /\ clientSettles[id][1].settlement.kind = "resolve"
                /\ id \notin clientPending[relayCalls[id].tab]["web"])

\* The web client and the content-script client of one tab both called the
\* background service; each was resolved by its own Response.
C15_Witness ==
    /\ WebToBackground(1)
    /\ relayCalls[2].msg.from = "content"
    /\ relayCalls[2].tab = relayCalls[1].tab
    /\ relayCalls[2].msg.service \in BackgroundKeys
    /\ \A id \in {1, 2} :
           /\ Len(clientSettles[id]) = 1
           /\ clientSettles[id][1].settlement.kind = "resolve"
           /\ clientSettles[id][1].settlement.value = "5"
           /\ clientSettles[id][1].origin = relayCalls[id].msg.from

\* C17: every method invocation a host makes passes the Request's arguments
\* in their order followed by the RpcContext of the caller as last argument.
C17_ContextIsLastArgument ==
    \A inv \in invocations : inv.received = Append(inv.args, inv.context)

\* C16: with the relay running in the page's content script and a host in
\* the background, the web client's ping goes on to the background, and the
\* handshake of createRPCService does not end in the not-ready error.
C16_WebHandshakeCompletes ==
    /\ [][WindowPing(WebClientTab) =>
              [sender |-> WebClientTab, msg |-> PingMessage] \in runtimeNet']_vars
    /\ [](hs # "failed")

\* C24: the handshake of a client that addresses the background is completed
\* only by a pong the background host sent: a pong from a host of another
\* role that reaches the client leaves the handshake where it was.
C24_OnlyTargetPongCompletes ==
    [][\A m \in runtimeNet :
          (RuntimeReceivePong(m) /\ m.msg.from # "background") => (hs' = hs /\ proxy' = proxy)]_vars

C30_WebObservableIsRelayed ==
    /\ [][\A t \in Tabs, k \in ObservedKeys :
              WebObservable(t, k) =>
                  [sender |-> t, msg |-> ObservableMessage("SUBSCRIBABLE_OBSERVABLE", k)] \in runtimeNet'
         ]_vars
    /\ [](\A o \in observables :
              o.side = "web" =>
                  \A i \in 1..Len(tabLog[o.tab]) :
                      tabLog[o.tab][i].key = o.key => RelayHandsToPage(tabLog[o.tab][i]))

\* C32: whatever value the implementation throws, the host's catch handler
\* sends an error Response, and the `message` of that Response is a defined,
\* non-empty string.
C32_ErrorMessageNonEmpty ==
    /\ errStage # "crashed"
    /\ errStage \in {"sent", "rejected"} =>
          /\ errWire.error.message # UNDEF
          /\ errWire.error.message # ""

\* C33: call() stores the pending entry of the new id before it hands the
\* Request to the transport: while a host still holds the Request of an
\* unsettled call the call's id is in the pending table of its client, and
\* every Response that reached the client, the one delivered during the send
\* included, has settled its call.
C33_PendingBeforeSend ==
    /\ \A j \in busJobs :
           busSettles[j.id] = <<>> => <<j.clientId, j.id>> \in busPending
    /\ \A <<clientId, id>> \in busDelivered : busSettles[id] = <<clientId>>

\* One call for an unknown service was answered during the send and is
\* settled by its client, while the Request of another call is with a host
\* and its entry is in the pending table.
C33_Witness ==
    /\ \E id \in BusIds :
           /\ busCalls[id].service \notin BusRegistered
           /\ busSettles[id] = <<busCalls[id].clientId>>
           /\ \A j \in busJobs : j.id # id
    /\ \E j \in busJobs : <<j.clientId, j.id>> \in busPending

\* C34: once the readiness handshake of createRPCService has finished, by
\* the proxy being returned or by the timeout error, no pong handler that the
\* handshake subscribed is left on the transport adapter.
C34_NoPongHandlerLeft ==
    hs \in {"ready", "failed"} => pongHandlers = {}

\* C35: when the hub handles the unsubscribe message of one observer of a
\* tab while another observer of the same tab, subscribed to the same key and
\* known to the hub, has neither unsubscribed nor been disposed, the tab stays
\* in the active set of the key, so later next() values still go to it.
C35_UnsubscribeKeepsSibling ==
    [][\A m \in runtimeNet :
          (/\ HubReceive(m)
           /\ m.msg.type = "UNSUBSCRIBE_OBSERVABLE"
           /\ m.sender \in MapGetSet(activeSenders, m.msg.key)
           /\ [sender |-> m.sender,
               msg |-> ObservableMessage("SUBSCRIBABLE_OBSERVABLE", m.msg.key)] \notin runtimeNet
           /\ \E o \in observables :
                  /\ o.side = "runtime" /\ o.tab = m.sender /\ o.key = m.msg.key
                  /\ ~o.unsubscribed /\ ~o.disposed)
          => m.sender \in MapGetSet(activeSenders', m.msg.key)]_vars

\* C36: once every observable a tab has constructed for a key has been
\* disposed and no message of the tab is on its way to the hub, the tab is in
\* neither the pending nor the active set of the key.
C36_DisposeUnsubscribes ==
    \A t \in ObserverTabs, k \in ObservedKeys :
        LET mine == {o \in observables : o.side = "runtime" /\ o.tab = t /\ o.key = k}
        IN  (/\ mine # {}
             /\ \A o \in mine : o.disposed
             /\ runtimeNet = {})
            => /\ t \notin MapGetSet(activeSenders, k)
               /\ t \notin MapGetSet(pendingSubscriptions, k)

\* C37: the callback of an observable has been invoked exactly once for every
\* 'next' update of its key that got to its handler before a 'complete' did,
\* with the value of that update, whatever the value, and never for an
\* update that got there after the 'complete'.
C37_CallbackForEveryNext ==
    \A o \in observables :
        o.side = "runtime" =>
            LET st == RunHandler(o, 1, HandlerState(FALSE, <<>>))
                log == tabLog[o.tab]
                Mine(i) == Reaches(o, i) /\ log[i].key = o.key
                Live(i) == /\ Mine(i)
                           /\ log[i].operation = "next"
                           /\ ~\E j \in 1..(i - 1) : Mine(j) /\ log[j].operation = "complete"
            IN  /\ Len(st.values) = Cardinality({i \in 1..Len(log) : Live(i)})
                /\ \A i \in 1..Len(log) :
                       Live(i) => \E p \in 1..Len(st.values) : st.values[p] = log[i].value

\* C20: on the shared bus a Request routed to the background is handled by
\* background hosts only, a Request routed to content target T only by
\* content hosts bound to a target with T's key, and the Response for a call
\* reaches, and settles, only the low-level client that sent the Request.
C20_BusRoutesToTargetAndSender ==
    /\ \A <<h, id>> \in busHandled :
           LET route == busCalls[id].route
           IN  /\ BridgeHosts[h].side = route.to
               /\ route.to = "content" =>
                      TargetKey(BridgeHosts[h].targetId) = TargetKey(route.targetId)
    /\ \A <<clientId, id>> \in busDelivered : clientId = busCalls[id].clientId
    /\ \A id \in BusIds :
           /\ Len(busSettles[id]) <= 1
           /\ \A i \in 1..Len(busSettles[id]) : busSettles[id][i] = busCalls[id].clientId

\* Two clients, a background host and content hosts on two targets: one
\* call went to content target B, the other to the background, each was
\* handled on its own side only and settled by its own client.
C20_Witness ==
    /\ backgroundListeners # {}
    /\ Cardinality(DOMAIN contentListeners) = 2
    /\ busCalls[1].route = Route("content", TargetId("string", "B"))
    /\ busCalls[2].route = BackgroundRoute
    /\ busCalls[1].clientId = "c1:B"
    /\ busCalls[2].clientId = "c2:background"
    /\ <<"sB", 1>> \in busHandled
    /\ \E h \in backgroundListeners : <<h, 2>> \in busHandled
    /\ busSettles[1] = <<"c1:B">>
    /\ busSettles[2] = <<"c2:background">>

====
